---------------------------- MODULE Spec2Model ----------------------------
(***************************************************************************)
(* Model of the NotebookLM-to-Zotero metadata enrichment engine:           *)
(*   src/popup/enrichment.js          batch runner, orchestrator, scorer   *)
(*   src/popup/metadata-extractor.js  identifier extractor, hybrid chain   *)
(*                                                                         *)
(* JavaScript values are represented as follows.                           *)
(*   string      a TLA+ string (Len, SubSeq and \o act on its characters)  *)
(*   null        the string Null                                           *)
(*   number      an integer; a confidence c is stored as c * Scale, so     *)
(*               0.7 is 70 and the hybrid chain's 100 is 10000             *)
(*   array       a sequence                                                *)
(*   object      a function whose DOMAIN is the set of keys it has         *)
(***************************************************************************)
EXTENDS Integers, Sequences, FiniteSets, TLC

(***************************************************************************)
(* Characters and strings                                                  *)
(***************************************************************************)
Null == "null"

\* s.charAt(i - 1): the i-th character of s, '' outside s
Char(s, i) == IF 1 <= i /\ i <= Len(s) THEN SubSeq(s, i, i) ELSE ""

DigitChars == {"0", "1", "2", "3", "4", "5", "6", "7", "8", "9"}

UpperStr == "ABCDEFGHIJKLMNOPQRSTUVWXYZ"

LowerStr == "abcdefghijklmnopqrstuvwxyz"

UpperChars == {Char(UpperStr, i) : i \in 1..26}

LowerChars == {Char(LowerStr, i) : i \in 1..26}

\* \s of a JavaScript regular expression, over the characters of the inputs
SpaceChars == {" "}

\* [-–—] of the filename patterns; the inputs use the ASCII hyphen
DashChars == {"-"}

IsDigit(c) == c \in DigitChars

IsSpace(c) == c \in SpaceChars

\* \w of a JavaScript regular expression
IsWord(c) == c \in DigitChars \cup UpperChars \cup LowerChars \cup {"_"}

Min(a, b) == IF a <= b THEN a ELSE b

\* s.substring(i - 1): the characters of s from the i-th on
From(s, i) == SubSeq(s, i, Len(s))

\* does p occur in s at position i (1-based)
StartsAt(s, i, p) ==
    /\ i >= 1
    /\ i + Len(p) - 1 <= Len(s)
    /\ SubSeq(s, i, i + Len(p) - 1) = p

\* s.includes(p)
Includes(s, p) == \E i \in 1..(Len(s) - Len(p) + 1) : StartsAt(s, i, p)

\* s.endsWith(p)
EndsWith(s, p) == StartsAt(s, Len(s) - Len(p) + 1, p)

LowerChar(c) ==
    IF c \in UpperChars
    THEN Char(LowerStr, CHOOSE i \in 1..26 : Char(UpperStr, i) = c)
    ELSE c

RECURSIVE LowerFrom(_, _)
LowerFrom(s, i) ==
    IF i > Len(s) THEN "" ELSE LowerChar(Char(s, i)) \o LowerFrom(s, i + 1)

\* s.toLowerCase()
ToLowerCase(s) == LowerFrom(s, 1)

\* the length of the longest run of characters of class cls starting at s[i]
RECURSIVE Run(_, _, _)
Run(s, i, cls) ==
    IF i <= Len(s) /\ Char(s, i) \in cls THEN 1 + Run(s, i + 1, cls) ELSE 0

\* the length of the longest run of characters outside cls starting at s[i]
RECURSIVE RunNot(_, _, _)
RunNot(s, i, cls) ==
    IF i <= Len(s) /\ Char(s, i) \notin cls THEN 1 + RunNot(s, i + 1, cls) ELSE 0

\* s.trim()
RECURSIVE TrimLeft(_)
TrimLeft(s) == IF s # "" /\ IsSpace(Char(s, 1)) THEN TrimLeft(From(s, 2)) ELSE s

RECURSIVE TrimRight(_)
TrimRight(s) ==
    IF s # "" /\ IsSpace(Char(s, Len(s)))
    THEN TrimRight(SubSeq(s, 1, Len(s) - 1))
    ELSE s

Trim(s) == TrimRight(TrimLeft(s))

\* the least element of a non-empty set of integers
Least(S) == CHOOSE x \in S : \A y \in S : x <= y

(***************************************************************************)
(* Identifier extractor (metadata-extractor.js)                            *)
(***************************************************************************)
\* The length of the match of 10\.\d{4,}\/[^stop]+ at s[i], 0 when there is
\* none. stop is the class the final group excludes: \s in DOI_PATTERNS
\* and SOURCE_PATTERNS, [\s&?] in getMetadataFromURL's last pattern.
DoiLenAt(s, i, stop) ==
    IF ~StartsAt(s, i, "10.") THEN 0
    ELSE LET d == Run(s, i + 3, DigitChars)
         IN  IF d < 4 \/ ~StartsAt(s, i + 3 + d, "/") THEN 0
             ELSE LET r == RunNot(s, i + 4 + d, stop)
                  IN  IF r = 0 THEN 0 ELSE 4 + d + r

\* \b before a word character: the start of s or a non-word character
BoundaryBefore(s, i) == i = 1 \/ ~IsWord(Char(s, i - 1))

\* positions, from position from on, where DOI_PATTERNS.standard matches
StandardAt(s, from) ==
    {i \in from..Len(s) : BoundaryBefore(s, i) /\ DoiLenAt(s, i, SpaceChars) > 0}

\* the first match of DOI_PATTERNS.standard in s, Null when there is none
MatchStandard(s) ==
    LET I == StandardAt(s, 1)
        i == Least(I)
    IN  IF I = {} THEN Null ELSE SubSeq(s, i, i + DoiLenAt(s, i, SpaceChars) - 1)

\* The prefixes of a pattern "one of prefixes, then a DOI" that match at
\* s[i]; ls is s in lower case (the patterns are case-insensitive).
PrefixesAt(s, ls, i, prefixes, stop) ==
    {p \in prefixes : StartsAt(ls, i, p) /\ DoiLenAt(s, i + Len(p), stop) > 0}

\* the length of the match of such a pattern at s[i], 0 when there is none
PrefixedLenAt(s, ls, i, prefixes, stop) ==
    LET P == PrefixesAt(s, ls, i, prefixes, stop)
    IN  IF P = {} THEN 0
        ELSE LET p == CHOOSE q \in P : TRUE
             IN  Len(p) + DoiLenAt(s, i + Len(p), stop)

\* the positions, from position from on, where such a pattern matches
PrefixedAt(s, from, prefixes, stop) ==
    LET ls == ToLowerCase(s)
    IN  {i \in from..Len(s) : PrefixesAt(s, ls, i, prefixes, stop) # {}}

\* Capture group 1 of the first match of a non-global pattern "prefix, then
\* (DOI)", Null when there is no match.
CapturePrefixed(s, prefixes, stop) ==
    LET ls == ToLowerCase(s)
        I == PrefixedAt(s, 1, prefixes, stop)
    IN  IF I = {} THEN Null
        ELSE LET i == Least(I)
                 p == CHOOSE q \in PrefixesAt(s, ls, i, prefixes, stop) : TRUE
             IN  SubSeq(s, i + Len(p), i + Len(p) + DoiLenAt(s, i + Len(p), stop) - 1)

\* String.prototype.match with a global (g) pattern returns the list of
\* full matches and no capture group: element [1] is the SECOND full match,
\* undefined when the pattern matches once.
Undefined == "undefined"

SecondMatchPrefixed(s, prefixes, stop) ==
    LET ls == ToLowerCase(s)
        I == PrefixedAt(s, 1, prefixes, stop)
    IN  IF I = {} THEN Undefined
        ELSE LET i == Least(I)
                 J == PrefixedAt(s, i + PrefixedLenAt(s, ls, i, prefixes, stop),
                                 prefixes, stop)
             IN  IF J = {} THEN Undefined
                 ELSE SubSeq(s, Least(J),
                             Least(J) + PrefixedLenAt(s, ls, Least(J), prefixes, stop) - 1)

\* DOI_PATTERNS.url: /doi\.org\/(10\.\d{4,}\/[^\s]+)/gi
DoiUrlPrefixes == {"doi.org/"}

\* DOI_PATTERNS.embedded: /doi[:\s]+(10\.\d{4,}\/[^\s]+)/gi, the separator
\* run [:\s]+ enumerated up to two characters
DoiEmbeddedPrefixes == {"doi:", "doi ", "doi: ", "doi::", "doi  ", "doi :"}

\* the prefix of s matched by /^doi:?\s*/i
DoiMarkerLen(s) ==
    IF ~StartsAt(ToLowerCase(s), 1, "doi") THEN 0
    ELSE LET c == IF StartsAt(s, 4, ":") THEN 1 ELSE 0
         IN  3 + c + Run(s, 4 + c, SpaceChars)

\* the prefix of s matched by /^https?:\/\/(?:dx\.)?doi\.org\//i
ResolverPrefixes ==
    {"http://doi.org/", "https://doi.org/", "http://dx.doi.org/", "https://dx.doi.org/"}

ResolverLen(s) ==
    LET P == {p \in ResolverPrefixes : StartsAt(ToLowerCase(s), 1, p)}
    IN  IF P = {} THEN 0 ELSE Len(CHOOSE p \in P : TRUE)

\* cleanDOI: strip a leading doi marker, then a leading resolver URL, trim
cleanDOI(doi) ==
    LET a == From(doi, DoiMarkerLen(doi) + 1)
        b == From(a, ResolverLen(a) + 1)
    IN  Trim(b)

\* What extractDOI does: return a DOI, return null, or throw (cleanDOI
\* called on undefined).
Throws == "throws"

extractDOI(source) ==
    LET t == source.title
        u == source.url
        standard == MatchStandard(t)
        doiMatch == CapturePrefixed(u, DoiUrlPrefixes, SpaceChars)
        urlDoi == MatchStandard(u)
    IN  IF t # "" /\ standard # Null THEN cleanDOI(standard)
        ELSE IF t # "" /\ PrefixedAt(t, 1, DoiUrlPrefixes, SpaceChars) # {}
        THEN LET m == SecondMatchPrefixed(t, DoiUrlPrefixes, SpaceChars)
             IN  IF m = Undefined THEN Throws ELSE cleanDOI(m)
        ELSE IF t # "" /\ PrefixedAt(t, 1, DoiEmbeddedPrefixes, SpaceChars) # {}
        THEN LET m == SecondMatchPrefixed(t, DoiEmbeddedPrefixes, SpaceChars)
             IN  IF m = Undefined THEN Throws ELSE cleanDOI(m)
        ELSE IF u # "" /\ doiMatch # Null THEN cleanDOI(doiMatch)
        ELSE IF u # "" /\ urlDoi # Null THEN cleanDOI(urlDoi)
        ELSE Null

(***************************************************************************)
(* URL-pattern table (metadata-extractor.js, SOURCE_PATTERNS)              *)
(***************************************************************************)
\* the first position of s (case-insensitive) where one of prefixes occurs
\* and the position after the prefix is one of tails (the positions where
\* the rest of the pattern matches), 0 when there is none
FirstPrefixed(s, prefixes, tails) ==
    LET ls == ToLowerCase(s)
        I == {i \in 1..Len(s) :
                \E p \in prefixes : StartsAt(ls, i, p) /\ (i + Len(p)) \in tails}
    IN  IF I = {} THEN 0 ELSE Least(I)

\* SOURCE_PATTERNS.arxiv: /arxiv\.org\/(?:abs|pdf)\/(\d+\.\d+)/i
ArxivPrefixes == {"arxiv.org/abs/", "arxiv.org/pdf/"}

\* the length of the match of \d+\.\d+ at s[i], 0 when there is none
ArxivIdLenAt(s, i) ==
    LET a == Run(s, i, DigitChars)
        b == Run(s, i + a + 1, DigitChars)
    IN  IF a >= 1 /\ StartsAt(s, i + a, ".") /\ b >= 1 THEN a + 1 + b ELSE 0

MatchArxivUrl(url) ==
    LET tails == {j \in 1..Len(url) : ArxivIdLenAt(url, j) > 0}
        i == FirstPrefixed(url, ArxivPrefixes, tails)
    IN  IF i = 0 THEN Null
        ELSE SubSeq(url, i + 14, i + 14 + ArxivIdLenAt(url, i + 14) - 1)

\* SOURCE_PATTERNS.pubmed: /pubmed\.ncbi\.nlm\.nih\.gov\/(\d+)/i
PubmedPrefixes == {"pubmed.ncbi.nlm.nih.gov/"}

MatchPubmedUrl(url) ==
    LET tails == {j \in 1..Len(url) : Run(url, j, DigitChars) > 0}
        i == FirstPrefixed(url, PubmedPrefixes, tails)
    IN  IF i = 0 THEN Null
        ELSE SubSeq(url, i + 24, i + 24 + Run(url, i + 24, DigitChars) - 1)

\* SOURCE_PATTERNS.springer, .wiley, .acm, .plos, in the order of
\* getMetadataFromURL's publisherPatterns
PublisherPrefixes ==
    << {"link.springer.com/article/", "link.springer.com/chapter/"},
       {"onlinelibrary.wiley.com/doi/abs/", "onlinelibrary.wiley.com/doi/full/"},
       {"dl.acm.org/doi/abs/", "dl.acm.org/doi/full/"},
       {"journals.plos.org/plosone/article?id="} >>

\* [\s&?] of the last pattern of getMetadataFromURL
UrlStopChars == SpaceChars \cup {"&", "?"}

\* the first match of /10\.\d{4,}\/[^\s&?]+/ in s, Null when there is none
MatchEmbeddedDoi(s) ==
    LET I == {i \in 1..Len(s) : DoiLenAt(s, i, UrlStopChars) > 0}
        i == Least(I)
    IN  IF I = {} THEN Null ELSE SubSeq(s, i, i + DoiLenAt(s, i, UrlStopChars) - 1)

\* The provider getMetadataFromURL dispatches to and the identifier it
\* passes: the first of arXiv, PubMed, doi.org, publisher, embedded DOI.
NoRoute == [provider |-> "none", id |-> Null]

UrlRoute(url) ==
    LET arxivMatch == MatchArxivUrl(url)
        pubmedMatch == MatchPubmedUrl(url)
        doiMatch == CapturePrefixed(url, DoiUrlPrefixes, SpaceChars)
        publisher == [k \in 1..4 |-> CapturePrefixed(url, PublisherPrefixes[k], SpaceChars)]
        K == {k \in 1..4 : publisher[k] # Null}
        embeddedDoi == MatchEmbeddedDoi(url)
    IN  IF arxivMatch # Null THEN [provider |-> "arxiv", id |-> arxivMatch]
        ELSE IF pubmedMatch # Null THEN [provider |-> "pubmed", id |-> pubmedMatch]
        ELSE IF doiMatch # Null THEN [provider |-> "doi", id |-> doiMatch]
        ELSE IF K # {} THEN [provider |-> "doi", id |-> publisher[Least(K)]]
        ELSE IF embeddedDoi # Null THEN [provider |-> "doi", id |-> embeddedDoi]
        ELSE NoRoute

(***************************************************************************)
(* Type classifier and title helpers (enrichment.js)                       *)
(***************************************************************************)
\* /\d{4}/: four digits in a row somewhere in s
HasYear(s) == \E i \in 1..Len(s) : Run(s, i, DigitChars) >= 4

\* /\.(pdf|docx?)$/i
HasDocExtension(s) ==
    \E e \in {".pdf", ".doc", ".docx"} : EndsWith(ToLowerCase(s), e)

detectSourceType(source) ==
    LET title == ToLowerCase(source.title)
        url == ToLowerCase(source.url)
    IN  IF Includes(title, "youtube") \/ Includes(url, "youtube.com")
           \/ Includes(url, "youtu.be")
        THEN "youtube"
        ELSE IF Includes(title, "arxiv") \/ Includes(url, "arxiv.org")
        THEN "arxiv"
        ELSE IF \/ source.type = "pdf"
                \/ HasDocExtension(title)
                \/ HasYear(title)
                \/ Includes(title, "et al")
                \/ Includes(title, "journal")
                \/ Includes(title, "conference")
        THEN "academic"
        ELSE IF url # "" \/ Len(title) > 20
        THEN "web"
        ELSE "unknown"

\* the first of the positions I where a pattern matches, 0 when none
FirstAt(I) == IF I = {} THEN 0 ELSE Least(I)

\* s without its characters of class cls: s.replace(/[cls]/g, '')
RECURSIVE StripFrom(_, _, _)
StripFrom(s, i, cls) ==
    IF i > Len(s) THEN ""
    ELSE (IF Char(s, i) \in cls THEN "" ELSE Char(s, i)) \o StripFrom(s, i + 1, cls)

\* s.replace(/\s+/g, ' ')
RECURSIVE CollapseFrom(_, _)
CollapseFrom(s, i) ==
    IF i > Len(s) THEN ""
    ELSE IF IsSpace(Char(s, i))
    THEN " " \o CollapseFrom(s, i + Run(s, i, SpaceChars))
    ELSE Char(s, i) \o CollapseFrom(s, i + 1)

\* /\.(pdf|docx?|xlsx?|pptx?)$/i
FileExtensions == {".pdf", ".doc", ".docx", ".xls", ".xlsx", ".ppt", ".pptx"}

StripExtension(s) ==
    LET ls == ToLowerCase(s)
        E == {e \in FileExtensions : EndsWith(ls, e)}
    IN  IF E = {} THEN s
        ELSE SubSeq(s, 1, Len(s) - Len(CHOOSE e \in E : \A f \in E : Len(f) <= Len(e)))

\* /\s*-\s*(arXiv|ResearchGate|YouTube).*$/i
PlatformNames == {"arxiv", "researchgate", "youtube"}

StripPlatformSuffix(s) ==
    LET ls == ToLowerCase(s)
        at(i) == LET j == i + Run(s, i, SpaceChars)
                 IN  /\ StartsAt(s, j, "-")
                     /\ \E n \in PlatformNames :
                            StartsAt(ls, j + 1 + Run(s, j + 1, SpaceChars), n)
        i == FirstAt({k \in 1..Len(s) : at(k)})
    IN  IF i = 0 THEN s ELSE SubSeq(s, 1, i - 1)

\* the length of the match of /\s+et\s+al\.?\s*/i at s[i], 0 when none
EtAlLenAt(s, ls, i) ==
    LET a == Run(s, i, SpaceChars)
        b == Run(s, i + a + 2, SpaceChars)
        k == i + a + 2 + b + 2
        d == IF StartsAt(s, k, ".") THEN 1 ELSE 0
    IN  IF a >= 1 /\ StartsAt(ls, i + a, "et") /\ b >= 1
           /\ StartsAt(ls, i + a + 2 + b, "al")
        THEN a + 2 + b + 2 + d + Run(s, k + d, SpaceChars)
        ELSE 0

\* s.replace(/\s+et\s+al\.?\s*/i, ' '): the first match only
SimplifyEtAl(s) ==
    LET ls == ToLowerCase(s)
        at(i) == EtAlLenAt(s, ls, i) > 0
        i == FirstAt({k \in 1..Len(s) : at(k)})
    IN  IF i = 0 THEN s
        ELSE SubSeq(s, 1, i - 1) \o " " \o From(s, i + EtAlLenAt(s, ls, i))

\* the length of the match of /\s*\d{4}\s*-\s*/ at s[i], 0 when none
YearDashLenAt(s, i) ==
    LET a == Run(s, i, SpaceChars)
        b == Run(s, i + a + 4, SpaceChars)
    IN  IF Run(s, i + a, DigitChars) >= 4 /\ StartsAt(s, i + a + 4 + b, "-")
        THEN a + 4 + b + 1 + Run(s, i + a + 4 + b + 1, SpaceChars)
        ELSE 0

\* s.replace(/\s*\d{4}\s*-\s*/g, ' ')
RECURSIVE RemoveYearsFrom(_, _)
RemoveYearsFrom(s, i) ==
    IF i > Len(s) THEN ""
    ELSE IF YearDashLenAt(s, i) > 0
    THEN " " \o RemoveYearsFrom(s, i + YearDashLenAt(s, i))
    ELSE Char(s, i) \o RemoveYearsFrom(s, i + 1)

cleanTitleForSearch(title) ==
    LET a == StripExtension(title)
        b == StripFrom(a, 1, {"\"", "'"})
        c == StripPlatformSuffix(b)
        d == SimplifyEtAl(c)
        e == RemoveYearsFrom(d, 1)
    IN  Trim(CollapseFrom(e, 1))

(***************************************************************************)
(* Filename parser (enrichment.js, parseFilenameMetadata)                  *)
(***************************************************************************)
\* The position after the match of \s*[-]\s* at s[i] when four digits
\* follow it, 0 otherwise: the tail "\s*[-–—]\s*(\d{4})" of patterns 1, 3.
DashYearAt(s, i) ==
    LET j == i + Run(s, i, SpaceChars)
        k == j + 1 + Run(s, j + 1, SpaceChars)
    IN  IF j <= Len(s) /\ Char(s, j) \in DashChars /\ Run(s, k, DigitChars) >= 4
        THEN k ELSE 0

NoParse == [author |-> Null, year |-> Null]

\* Pattern 1: /^([^-]+?)\s+et\s+al\.?\s*[-–—]\s*(\d{4})/i. y is the position
\* of the year when the group is s[1..k], 0 when the rest does not match.
Pattern1Year(s, ls, k) ==
    LET a == Run(s, k + 1, SpaceChars)
        b == Run(s, k + 1 + a + 2, SpaceChars)
        j == k + 1 + a + 2 + b + 2
        d == IF StartsAt(s, j, ".") THEN 1 ELSE 0
    IN  IF a >= 1 /\ StartsAt(ls, k + 1 + a, "et") /\ b >= 1
           /\ StartsAt(ls, k + 1 + a + 2 + b, "al")
        THEN DashYearAt(s, j + d)
        ELSE 0

Pattern1(s) ==
    LET ls == ToLowerCase(s)
        K == {k \in 1..RunNot(s, 1, {"-"}) : Pattern1Year(s, ls, k) > 0}
        k == Least(K)
        y == Pattern1Year(s, ls, k)
    IN  IF K = {} THEN NoParse
        ELSE [author |-> Trim(SubSeq(s, 1, k)), year |-> SubSeq(s, y, y + 3)]

\* group.replace(/\s+(&|and)\s+.*/, '')
FirstAuthor(g) ==
    LET at(i) == LET a == Run(g, i, SpaceChars)
                 IN  /\ a >= 1
                     /\ \/ StartsAt(g, i + a, "&") /\ IsSpace(Char(g, i + a + 1))
                        \/ StartsAt(g, i + a, "and") /\ IsSpace(Char(g, i + a + 3))
        i == FirstAt({k \in 1..Len(g) : at(k)})
    IN  IF i = 0 THEN g ELSE SubSeq(g, 1, i - 1)

\* Pattern 2: /^([^(]+?)\s*\((\d{4})\)/
Pattern2(s) ==
    LET p == RunNot(s, 1, {"("}) + 1
        K == {k \in 1..(p - 1) : k + Run(s, k + 1, SpaceChars) = p - 1}
    IN  IF p >= 2 /\ StartsAt(s, p, "(") /\ Run(s, p + 1, DigitChars) = 4
           /\ StartsAt(s, p + 5, ")")
        THEN [author |-> Trim(FirstAuthor(SubSeq(s, 1, Least(K)))),
              year |-> SubSeq(s, p + 1, p + 4)]
        ELSE NoParse

\* the length of the match of [A-Z][a-z]+ at s[i], 0 when none
NameLenAt(s, i) ==
    IF i <= Len(s) /\ Char(s, i) \in UpperChars /\ Run(s, i + 1, LowerChars) >= 1
    THEN 1 + Run(s, i + 1, LowerChars)
    ELSE 0

\* Pattern 3: /^([A-Z][a-z]+(?:-[A-Z][a-z]+)?)\s*[-–—]\s*(\d{4})/
Pattern3(s) ==
    LET n == NameLenAt(s, 1)
        m == IF StartsAt(s, n + 1, "-") THEN NameLenAt(s, n + 2) ELSE 0
        long == IF m > 0 THEN DashYearAt(s, n + 1 + m + 1) ELSE 0
        short == DashYearAt(s, n + 1)
    IN  IF n = 0 THEN NoParse
        ELSE IF long > 0
        THEN [author |-> Trim(SubSeq(s, 1, n + 1 + m)), year |-> SubSeq(s, long, long + 3)]
        ELSE IF short > 0
        THEN [author |-> Trim(SubSeq(s, 1, n)), year |-> SubSeq(s, short, short + 3)]
        ELSE NoParse

\* the position of the year when \s*(\d{4})\s+ matches at s[i], 0 otherwise
YearSpaceAt(s, i) ==
    LET j == i + Run(s, i, SpaceChars)
    IN  IF Run(s, j, DigitChars) >= 4 /\ j + 4 <= Len(s) /\ IsSpace(Char(s, j + 4))
        THEN j ELSE 0

\* Pattern 4: /^([A-Z][a-z]+(?:\s+[A-Z][a-z]+)?)\s*(\d{4})\s+/
Pattern4(s) ==
    LET n == NameLenAt(s, 1)
        w == Run(s, n + 1, SpaceChars)
        m == IF w >= 1 THEN NameLenAt(s, n + 1 + w) ELSE 0
        long == IF m > 0 THEN YearSpaceAt(s, n + 1 + w + m) ELSE 0
        short == YearSpaceAt(s, n + 1)
    IN  IF n = 0 THEN NoParse
        ELSE IF long > 0
        THEN [author |-> Trim(SubSeq(s, 1, n + w + m)), year |-> SubSeq(s, long, long + 3)]
        ELSE IF short > 0
        THEN [author |-> Trim(SubSeq(s, 1, n)), year |-> SubSeq(s, short, short + 3)]
        ELSE NoParse

\* a parser that tries "Author - YYYY" before "Author (YYYY)"
parseFilenameMetadataDashFirst(title) ==
    LET p1 == Pattern1(title)
        p2 == Pattern2(title)
        p3 == Pattern3(title)
        p4 == Pattern4(title)
    IN  IF p1 # NoParse THEN p1
        ELSE IF p3 # NoParse THEN p3
        ELSE IF p2 # NoParse THEN p2
        ELSE IF p4 # NoParse THEN p4
        ELSE NoParse

\* The year is kept as its four digits (parseInt of four digits loses
\* nothing); the first pattern that matches decides.
parseFilenameMetadata(title) ==
    LET p1 == Pattern1(title)
        p2 == Pattern2(title)
        p3 == Pattern3(title)
        p4 == Pattern4(title)
    IN  IF p1 # NoParse THEN p1
        ELSE IF p2 # NoParse THEN p2
        ELSE IF p3 # NoParse THEN p3
        ELSE IF p4 # NoParse THEN p4
        ELSE NoParse

(***************************************************************************)
(* Similarity scorer (enrichment.js, calculateTitleSimilarity)             *)
(***************************************************************************)
\* a JavaScript number n is stored as n * Scale
Scale == 100

\* [a-z0-9\s]
CleanChars == LowerChars \cup DigitChars \cup SpaceChars

\* title.toLowerCase().replace(/[^a-z0-9\s]/g, '').trim()
RECURSIVE KeepFrom(_, _, _)
KeepFrom(s, i, cls) ==
    IF i > Len(s) THEN ""
    ELSE (IF Char(s, i) \in cls THEN Char(s, i) ELSE "") \o KeepFrom(s, i + 1, cls)

CleanForCompare(title) == Trim(KeepFrom(ToLowerCase(title), 1, CleanChars))

\* new Set(clean.split(/\s+/)): ''.split gives [''], the set {''}
RECURSIVE WordsFrom(_, _)
WordsFrom(s, i) ==
    IF i > Len(s) THEN {}
    ELSE IF IsSpace(Char(s, i)) THEN WordsFrom(s, i + Run(s, i, SpaceChars))
    ELSE LET n == RunNot(s, i, SpaceChars)
         IN  {SubSeq(s, i, i + n - 1)} \cup WordsFrom(s, i + n)

WordSet(clean) == IF clean = "" THEN {""} ELSE WordsFrom(clean, 1)

\* a scorer whose substring bonus looks for the second title in the first
\* and not the other way round
calculateTitleSimilarityOneWay(title1, title2) ==
    LET clean1 == CleanForCompare(title1)
        clean2 == CleanForCompare(title2)
        words1 == WordSet(clean1)
        words2 == WordSet(clean2)
        jaccard == (Scale * Cardinality(words1 \cap words2))
                       \div Cardinality(words1 \cup words2)
        substring == IF Includes(clean1, clean2) THEN 20 ELSE 0
    IN  IF clean1 = clean2 THEN Scale ELSE Min(Scale, jaccard + substring)

\* The result times Scale. The quotient is rounded down to a hundredth,
\* which leaves every comparison with a threshold of whole hundredths
\* (0.65, 0.7) as it is.
calculateTitleSimilarity(title1, title2) ==
    LET clean1 == CleanForCompare(title1)
        clean2 == CleanForCompare(title2)
        words1 == WordSet(clean1)
        words2 == WordSet(clean2)
        jaccard == (Scale * Cardinality(words1 \cap words2))
                       \div Cardinality(words1 \cup words2)
        substring == IF Includes(clean1, clean2) \/ Includes(clean2, clean1)
                     THEN 20 ELSE 0
    IN  IF clean1 = clean2 THEN Scale ELSE Min(Scale, jaccard + substring)

(***************************************************************************)
(* Video and preprint identifiers in a record (enrichment.js)              *)
(***************************************************************************)
\* [a-zA-Z0-9_-]
VideoIdChars == LowerChars \cup UpperChars \cup DigitChars \cup {"_", "-"}

\* the patterns of extractYoutubeId, in order
extractYoutubeId(text) ==
    LET watch(i) == \E p \in {"youtube.com/watch?v=", "youtu.be/"} :
                        StartsAt(text, i, p) /\ Run(text, i + Len(p), VideoIdChars) >= 11
        embed(i) == StartsAt(text, i, "youtube.com/embed/")
                    /\ Run(text, i + 18, VideoIdChars) >= 11
        w == FirstAt({k \in 1..Len(text) : watch(k)})
        e == FirstAt({k \in 1..Len(text) : embed(k)})
        wp == IF StartsAt(text, w, "youtu.be/") THEN 9 ELSE 20
    IN  IF text = "" THEN Null
        ELSE IF w > 0 THEN SubSeq(text, w + wp, w + wp + 10)
        ELSE IF e > 0 THEN SubSeq(text, e + 18, e + 28)
        ELSE IF Len(text) = 11 /\ Run(text, 1, VideoIdChars) = 11 THEN text
        ELSE Null

\* the first match of /(\d{4}\.\d{4,5})/ in s, Null when there is none
MatchArxivId(s) ==
    LET at(i) == Run(s, i, DigitChars) >= 4 /\ StartsAt(s, i + 4, ".")
                 /\ Run(s, i + 5, DigitChars) >= 4
        i == FirstAt({k \in 1..Len(s) : at(k)})
    IN  IF i = 0 THEN Null
        ELSE SubSeq(s, i, i + 4 + Min(5, Run(s, i + 5, DigitChars)))

(***************************************************************************)
(* JavaScript objects                                                      *)
(***************************************************************************)
\* { ...a, ...b }: every key of b, null and '' included, replaces a's
Spread(a, b) ==
    [k \in (DOMAIN a) \cup (DOMAIN b) |-> IF k \in DOMAIN b THEN b[k] ELSE a[k]]

Has(o, k) == k \in DOMAIN o

\* a string-valued property that is neither undefined, null nor '' (a
\* property set to undefined holds the string "undefined")
Truthy(o, k) == Has(o, k) /\ o[k] \notin {Null, "undefined", ""}

\* o[k] || dflt, for a string-valued property
OrElse(o, k, dflt) == IF Truthy(o, k) THEN o[k] ELSE dflt

\* String(n) of a natural number
RECURSIVE NumToStr(_)
NumToStr(n) ==
    IF n < 10 THEN Char("0123456789", n + 1)
    ELSE NumToStr(n \div 10) \o Char("0123456789", (n % 10) + 1)

\* String(n).padStart(2, '0')
Pad2(n) == IF n < 10 THEN "0" \o NumToStr(n) ELSE NumToStr(n)

(***************************************************************************)
(* Provider payloads: what the external services may answer.  A payload    *)
(* keeps the properties the clients read that reach a property of the      *)
(* enriched record read by the batch runner or the export (title, authors, *)
(* doi, abstract, journal, url, type, date); volume, issue, pages, issn,   *)
(* publisher, year and citation counts are copied through unread and are   *)
(* left out.                                                               *)
(***************************************************************************)
\* the titles the providers' works carry
WorkTitles == {"Gut Flora", "Deep Nets", "Smith Flora"}

GoodDoi == "10.1000/xyz1"

\* A CrossRef work (api.crossref.org/works): complete, or with nothing but
\* its DOI.  published holds date-parts[0].
CrossRefFull(title, doi) ==
    [title |-> title,
     author |-> << [given |-> "Ann", family |-> "Lee"], [family |-> "Kim"] >>,
     DOI |-> doi,
     abstract |-> "An abstract",
     published |-> <<2024, 3, 7>>,
     containerTitle |-> "J Nets",
     URL |-> "https://doi.org/" \o doi,
     type |-> "journal-article"]

CrossRefBare(doi) == [DOI |-> doi]

\* the works a DOI lookup may return for doi
DoiWorks(doi) == {CrossRefFull("Deep Nets", doi), CrossRefBare(doi)}

\* the first hit of a CrossRef title search: any work of the index, one of
\* them a work that shares half of its words with a record's title
CrossRefItems ==
    {CrossRefFull(t, GoodDoi) : t \in WorkTitles \cup {"Gut Flora Cats"}}
        \cup {[title |-> t, published |-> <<2020>>] : t \in WorkTitles}

\* The ways a request fails: fetch rejects, the status is not OK (429
\* included), or the body is not the expected document.
Failures == {"network-error", "http-429", "http-500", "malformed"}

\* A response: status "ok" with the decoded body, or one of Failures.
Ok(body) == [status |-> "ok", body |-> body]

Failed == {[status |-> f, body |-> <<>>] : f \in Failures}

\* the client's "no result" (null)
NoMetadata == [k \in {} |-> Null]

Found(metadata) == DOMAIN metadata # {}

(***************************************************************************)
(* Identifier-lookup clients (metadata-extractor.js)                       *)
(***************************************************************************)
\* a CrossRef author as getMetadataFromDOI names it
AuthorNameDOI(a) ==
    IF Truthy(a, "given") /\ Truthy(a, "family") THEN a.given \o " " \o a.family
    ELSE IF Truthy(a, "family") THEN a.family
    ELSE OrElse(a, "name", "")

\* formatCrossRefDate; parts is dateObj['date-parts'][0], <<>> when the
\* work has neither published nor created
formatCrossRefDate(parts) ==
    IF Len(parts) = 0 THEN ""
    ELSE IF Len(parts) >= 3
    THEN NumToStr(parts[1]) \o "-" \o Pad2(parts[2]) \o "-" \o Pad2(parts[3])
    ELSE IF Len(parts) = 2 THEN NumToStr(parts[1]) \o "-" \o Pad2(parts[2])
    ELSE NumToStr(parts[1])

DoiLookupResponses(doi) == Failed \cup {Ok(w) : w \in DoiWorks(doi)}

\* getMetadataFromDOI, given the response r to its request
getMetadataFromDOI(doi, r) ==
    IF r.status # "ok" THEN NoMetadata
    ELSE LET work == r.body
             workDoi == IF Has(work, "DOI") THEN work.DOI ELSE Undefined
         IN  [title |-> OrElse(work, "title", ""),
              authors |-> IF Has(work, "author")
                          THEN [n \in DOMAIN work.author |-> AuthorNameDOI(work.author[n])]
                          ELSE <<>>,
              doi |-> workDoi,
              abstract |-> OrElse(work, "abstract", ""),
              journal |-> OrElse(work, "containerTitle", ""),
              url |-> OrElse(work, "URL", "https://doi.org/" \o workDoi),
              type |-> OrElse(work, "type", "journal-article"),
              confidence |-> 100 * Scale,
              enrichmentSource |-> "CrossRef (DOI)",
              date |-> formatCrossRefDate(
                           IF Has(work, "published") THEN work.published
                           ELSE IF Has(work, "created") THEN work.created
                           ELSE <<>>)]

\* an entry of the arXiv feed: complete, a complete one of another paper,
\* or empty
ArxivEntries ==
    {[title |-> "Attention Is All You Need",
      summary |-> "We propose the Transformer",
      published |-> "2017-06-12T17:57:34Z",
      authors |-> <<"A Vaswani">>,
      id |-> "http://arxiv.org/abs/1706.03762v5"],
     [title |-> "Gut Flora",
      summary |-> "We survey the gut",
      published |-> "2024-03-07T09:00:00Z",
      authors |-> <<"Ann Lee">>,
      id |-> "http://arxiv.org/abs/2403.01234v1"],
     [authors |-> <<>>]}

\* the feed of the arXiv API: no entry, or one
ArxivResponses == Failed \cup {Ok(<<>>)} \cup {Ok(<<e>>) : e \in ArxivEntries}

\* published.split('T')[0]
BeforeT(s) == SubSeq(s, 1, RunNot(s, 1, {"T"}))

\* a getMetadataFromArxiv that does not test whether the feed holds an
\* entry, and reads what it has with optional chaining
getMetadataFromArxivWithoutEntryTest(arxivId, r) ==
    IF r.status = "network-error" THEN NoMetadata
    ELSE LET entry == IF Len(r.body) = 0 THEN [authors |-> <<>>] ELSE r.body[1]
         IN  [title |-> OrElse(entry, "title", ""),
              authors |-> entry.authors,
              abstract |-> OrElse(entry, "summary", ""),
              date |-> IF Truthy(entry, "published") THEN BeforeT(entry.published) ELSE "",
              doi |-> OrElse(entry, "doi", ""),
              url |-> "https://arxiv.org/abs/" \o arxivId,
              confidence |-> 95 * Scale,
              enrichmentSource |-> "arXiv API"]

\* getMetadataFromArxiv: the status is not looked at, a page that is no
\* feed holds no entry
getMetadataFromArxiv(arxivId, r) ==
    IF r.status # "ok" \/ Len(r.body) = 0 THEN NoMetadata
    ELSE LET entry == r.body[1]
         IN  [title |-> OrElse(entry, "title", ""),
              authors |-> entry.authors,
              abstract |-> OrElse(entry, "summary", ""),
              date |-> IF Truthy(entry, "published") THEN BeforeT(entry.published) ELSE "",
              doi |-> OrElse(entry, "doi", ""),
              url |-> "https://arxiv.org/abs/" \o arxivId,
              confidence |-> 95 * Scale,
              enrichmentSource |-> "arXiv API"]

\* an article of the PubMed summary: complete, or empty
PubMedArticles ==
    {[title |-> "Gut Flora",
      authors |-> <<"Smith J">>,
      fulljournalname |-> "Gut",
      elocationid |-> "doi: 10.1000/xyz1"],
     [uid |-> "12345"]}

PubMedResponses == Failed \cup {Ok(<<>>)} \cup {Ok(<<a>>) : a \in PubMedArticles}

\* s.replace('doi: ', ''): the first occurrence
RemoveDoiLabel(s) ==
    LET at(i) == StartsAt(s, i, "doi: ")
        i == FirstAt({k \in 1..Len(s) : at(k)})
    IN  IF i = 0 THEN s ELSE SubSeq(s, 1, i - 1) \o From(s, i + 5)

\* getMetadataFromPubMed
getMetadataFromPubMed(pmid, r) ==
    IF r.status # "ok" \/ Len(r.body) = 0 THEN NoMetadata
    ELSE LET article == r.body[1]
             eloc == IF Has(article, "elocationid")
                     THEN RemoveDoiLabel(article.elocationid) ELSE ""
         IN  [title |-> OrElse(article, "title", ""),
              authors |-> IF Has(article, "authors") THEN article.authors ELSE <<>>,
              abstract |-> "",
              journal |-> OrElse(article, "fulljournalname", OrElse(article, "source", "")),
              doi |-> eloc,
              url |-> "https://pubmed.ncbi.nlm.nih.gov/" \o pmid \o "/",
              confidence |-> 95 * Scale,
              enrichmentSource |-> "PubMed API"]

\* the relevance floor of findDOIByTitle
ScoreFloor == 30

\* the first hit of the DOI search: a DOI and a relevance score, either of
\* which may be missing
DoiSearchHits ==
    {[DOI |-> GoodDoi, score |-> 85], [DOI |-> GoodDoi, score |-> ScoreFloor],
     [DOI |-> GoodDoi, score |-> ScoreFloor - 1], [DOI |-> GoodDoi], [score |-> 85]}

DoiSearchResponses == Failed \cup {Ok(<<>>)} \cup {Ok(<<h>>) : h \in DoiSearchHits}

\* a findDOIByTitle that asks for a score above the floor
findDOIByTitleAboveFloor(title, r) ==
    IF r.status # "ok" \/ Len(r.body) = 0 THEN Null
    ELSE LET firstResult == r.body[1]
             score == IF Has(firstResult, "score") THEN firstResult.score ELSE 0
         IN  IF score <= ScoreFloor THEN Null
             ELSE IF Has(firstResult, "DOI") THEN firstResult.DOI ELSE Undefined

\* findDOIByTitle: the DOI of the first hit, null, or undefined (a hit
\* without a DOI)
findDOIByTitle(title, r) ==
    IF r.status # "ok" \/ Len(r.body) = 0 THEN Null
    ELSE LET firstResult == r.body[1]
             score == IF Has(firstResult, "score") THEN firstResult.score ELSE 0
         IN  IF score < ScoreFloor THEN Null
             ELSE IF Has(firstResult, "DOI") THEN firstResult.DOI ELSE Undefined

\* if (doi): neither null, undefined nor ''
IsDoi(doi) == doi \notin {Null, Undefined, ""}

(***************************************************************************)
(* Title-search clients (enrichment.js)                                    *)
(***************************************************************************)
\* the acceptance thresholds, times Scale
StructuredThreshold == 70

CrossRefThreshold == 70

OpenAlexThreshold == 65

SemanticScholarThreshold == 65

\* the confidence the orchestrator asks of the hybrid chain, times Scale
HybridThreshold == 90 * Scale

\* `${a.given || ''} ${a.family || ''}`.trim()
AuthorNameSearch(a) == Trim(OrElse(a, "given", "") \o " " \o OrElse(a, "family", ""))

\* the properties queryWithAuthorYear and queryCrossRef build from an item
CrossRefMetadata(item, title, confidence) ==
    [title |-> OrElse(item, "title", title),
     authors |-> IF Has(item, "author")
                 THEN [n \in DOMAIN item.author |-> AuthorNameSearch(item.author[n])]
                 ELSE <<>>,
     doi |-> OrElse(item, "DOI", Null),
     journal |-> OrElse(item, "containerTitle", Null),
     abstract |-> OrElse(item, "abstract", Null),
     url |-> OrElse(item, "URL",
                    IF Truthy(item, "DOI") THEN "https://doi.org/" \o item.DOI ELSE Null),
     confidence |-> confidence]

CrossRefSearchResponses == Failed \cup {Ok(<<>>)} \cup {Ok(<<w>>) : w \in CrossRefItems}

\* queryWithAuthorYear; year is the four digits parseFilenameMetadata found
queryWithAuthorYear(author, year, title, r) ==
    IF r.status # "ok" \/ Len(r.body) = 0 THEN NoMetadata
    ELSE LET item == r.body[1]
             titleConfidence == calculateTitleSimilarity(title, OrElse(item, "title", ""))
             yearMatch == IF Has(item, "published") /\ Len(item.published) > 0
                             /\ NumToStr(item.published[1]) = year
                          THEN 20 ELSE 0
             confidence == Min(Scale, titleConfidence + yearMatch)
         IN  IF confidence < StructuredThreshold THEN NoMetadata
             ELSE CrossRefMetadata(item, title, confidence)

\* queryCrossRef
queryCrossRef(title, r) ==
    IF r.status # "ok" \/ Len(r.body) = 0 THEN NoMetadata
    ELSE LET item == r.body[1]
             confidence == calculateTitleSimilarity(title, OrElse(item, "title", ""))
         IN  IF confidence < CrossRefThreshold THEN NoMetadata
             ELSE CrossRefMetadata(item, title, confidence)

\* An OpenAlex work: complete, or with a title alone.  The abstract comes
\* as an inverted index, a list of <<word, positions>>.
OpenAlexItems ==
    {[title |-> t,
      authorships |-> <<"Ann Lee">>,
      doi |-> "https://doi.org/10.1000/xyz1",
      venue |-> "J Nets",
      abstract_inverted_index |-> << <<"nets", <<1>> >>, <<"deep", <<0, 2>> >> >>,
      landing_page_url |-> "https://example.org/w1"] : t \in WorkTitles}
        \cup {[title |-> t] : t \in WorkTitles}

OpenAlexResponses == Failed \cup {Ok(<<>>)} \cup {Ok(<<w>>) : w \in OpenAlexItems}

\* the word reconstructAbstract leaves at position pos: the last entry of
\* the index that lists pos, '' when none does
WordAt(index, pos) ==
    LET E == {e \in DOMAIN index : \E q \in DOMAIN index[e][2] : index[e][2][q] = pos}
    IN  IF E = {} THEN "" ELSE index[CHOOSE e \in E : \A f \in E : f <= e][1]

RECURSIVE JoinWords(_, _, _)
JoinWords(index, pos, last) ==
    IF pos > last THEN ""
    ELSE LET w == WordAt(index, pos)
             rest == JoinWords(index, pos + 1, last)
         IN  IF w = "" THEN rest ELSE IF rest = "" THEN w ELSE w \o " " \o rest

\* reconstructAbstract (the cut at 1000 characters is beyond the payloads)
reconstructAbstract(index) ==
    LET positions == UNION {{index[e][2][q] : q \in DOMAIN index[e][2]} : e \in DOMAIN index}
    IN  IF positions = {} THEN ""
        ELSE JoinWords(index, 0, CHOOSE m \in positions : \A n \in positions : n <= m)

\* item.doi?.replace('https://doi.org/', '')
StripDoiOrg(doi) ==
    LET at(i) == StartsAt(doi, i, "https://doi.org/")
        i == FirstAt({k \in 1..Len(doi) : at(k)})
    IN  IF i = 0 THEN doi ELSE SubSeq(doi, 1, i - 1) \o From(doi, i + 16)

\* queryOpenAlex
queryOpenAlex(title, r) ==
    IF r.status # "ok" \/ Len(r.body) = 0 THEN NoMetadata
    ELSE LET item == r.body[1]
             confidence == calculateTitleSimilarity(title, OrElse(item, "title", ""))
             doi == IF Has(item, "doi") THEN StripDoiOrg(item.doi) ELSE ""
             abstract == IF Has(item, "abstract_inverted_index")
                         THEN reconstructAbstract(item.abstract_inverted_index)
                         ELSE Null
         IN  IF confidence < OpenAlexThreshold THEN NoMetadata
             ELSE [title |-> OrElse(item, "title", title),
                   authors |-> IF Has(item, "authorships") THEN item.authorships ELSE <<>>,
                   doi |-> IF doi = "" THEN Null ELSE doi,
                   journal |-> OrElse(item, "venue", Null),
                   abstract |-> abstract,
                   url |-> OrElse(item, "doi", OrElse(item, "landing_page_url", Null)),
                   confidence |-> confidence]

\* a Semantic Scholar paper: complete, or with a title alone
SemanticScholarItems ==
    {[title |-> t,
      authors |-> <<"Ann Lee">>,
      DOI |-> GoodDoi,
      venue |-> "J Nets",
      abstract |-> "An abstract"] : t \in WorkTitles}
        \cup {[title |-> t] : t \in WorkTitles}

SemanticScholarResponses ==
    Failed \cup {Ok(<<>>)} \cup {Ok(<<w>>) : w \in SemanticScholarItems}

\* querySemanticScholar
querySemanticScholar(title, r) ==
    IF r.status # "ok" \/ Len(r.body) = 0 THEN NoMetadata
    ELSE LET item == r.body[1]
             confidence == calculateTitleSimilarity(title, OrElse(item, "title", ""))
         IN  IF confidence < SemanticScholarThreshold THEN NoMetadata
             ELSE [title |-> OrElse(item, "title", title),
                   authors |-> IF Has(item, "authors") THEN item.authors ELSE <<>>,
                   doi |-> OrElse(item, "DOI", Null),
                   journal |-> OrElse(item, "venue", Null),
                   abstract |-> OrElse(item, "abstract", Null),
                   url |-> IF Truthy(item, "DOI") THEN "https://doi.org/" \o item.DOI ELSE Null,
                   confidence |-> confidence]

(***************************************************************************)
(* Type-specific enrichers (enrichment.js)                                 *)
(***************************************************************************)
\* { ...source, confidence: 0 }
Unmatched(source) == Spread(source, [confidence |-> 0])

\* { ...source, confidence: 0, enrichmentType: 'none' }
NoMatch(source) == Spread(source, [confidence |-> 0, enrichmentType |-> "none"])

\* the search_query enrichArxiv sends
ArxivQuery(source) ==
    IF MatchArxivId(source.title) # Null THEN "id:" \o MatchArxivId(source.title)
    ELSE "ti:" \o cleanTitleForSearch(source.title)

\* enrichArxiv: a request that fails, or a feed without entry, leaves the
\* record unmatched; the first entry is taken whatever its similarity
enrichArxiv(source, r) ==
    IF r.status # "ok" \/ Len(r.body) = 0 THEN Unmatched(source)
    ELSE LET entry == r.body[1]
             arxivTitle == Trim(OrElse(entry, "title", ""))
             confidence == calculateTitleSimilarity(cleanTitleForSearch(source.title),
                                                    arxivTitle)
             arxivId == IF Has(entry, "id") THEN MatchArxivId(entry.id) ELSE Null
         IN  Spread(source,
                 [title |-> IF arxivTitle = "" THEN source.title ELSE arxivTitle,
                  authors |-> entry.authors,
                  abstract |-> IF Has(entry, "summary") /\ Trim(entry.summary) # ""
                               THEN Trim(entry.summary) ELSE Null,
                  url |-> IF arxivId = Null THEN source.url
                          ELSE "https://arxiv.org/abs/" \o arxivId,
                  confidence |-> confidence,
                  enrichmentType |-> "arxiv"])

\* the meta tags of a fetched page: a page with all of them, or with none
WebPages ==
    {[ogTitle |-> "Deep Nets explained",
      description |-> "A post",
      author |-> "Ann Lee",
      published |-> "2024-01-05T10:00:00Z"],
     [k \in {} |-> Null]}

\* any document parses as HTML: a body that is no page is a page without
\* meta tags
WebResponses ==
    {r \in Failed : r.status # "malformed"} \cup {Ok(page) : page \in WebPages}

\* an enrichWeb that forgets its enrichmentType
enrichWebUntagged(source, r) ==
    IF source.url = "" \/ r.status # "ok" THEN Unmatched(source)
    ELSE LET doc == r.body
         IN  Spread(source,
                 [title |-> OrElse(doc, "ogTitle", OrElse(doc, "title", source.title)),
                  authors |-> IF Truthy(doc, "author") THEN <<doc.author>> ELSE <<>>,
                  abstract |-> OrElse(doc, "description", Null),
                  date |-> OrElse(doc, "published", Null),
                  url |-> source.url,
                  confidence |-> 70])

\* enrichWeb, given the response r to fetch(source.url); of the fields it
\* sets, publisher and year are left out
enrichWeb(source, r) ==
    IF source.url = "" \/ r.status # "ok" THEN Unmatched(source)
    ELSE LET doc == r.body
         IN  Spread(source,
                 [title |-> OrElse(doc, "ogTitle", OrElse(doc, "title", source.title)),
                  authors |-> IF Truthy(doc, "author") THEN <<doc.author>> ELSE <<>>,
                  abstract |-> OrElse(doc, "description", Null),
                  date |-> OrElse(doc, "published", Null),
                  url |-> source.url,
                  confidence |-> 70,
                  enrichmentType |-> "web"])

\* localStorage.getItem('youtube_api_key'): no key, a key, or an exception
\* (storage that the page may not read)
ApiKeys == {Null, "key", Throws}

\* a video of the YouTube API: with a snippet, or without one
Videos ==
    {[title |-> "Talk", channelTitle |-> "Chan", description |-> "A talk",
      publishedAt |-> "2023-02-01T00:00:00Z"],
     [id |-> "dQw4w9WgXcQ"]}

YoutubeResponses == Failed \cup {Ok(<<>>)} \cup {Ok(<<v>>) : v \in Videos}

\* enrichYoutube once the key is read; a video without snippet makes the
\* code throw inside its try
enrichYoutube(source, apiKey, r) ==
    LET videoId == extractYoutubeId(IF source.url # "" THEN source.url ELSE source.title)
        watch == "https://youtube.com/watch?v=" \o videoId
    IN  IF videoId = Null THEN Unmatched(source)
        ELSE IF apiKey = Null
        THEN Spread(source, [url |-> watch, confidence |-> 30,
                             enrichmentType |-> "youtube_nokey"])
        ELSE IF r.status # "ok" \/ Len(r.body) = 0 THEN Unmatched(source)
        ELSE LET snippet == r.body[1]
             IN  IF ~Has(snippet, "channelTitle") THEN Unmatched(source)
                 ELSE Spread(source,
                          [title |-> OrElse(snippet, "title", source.title),
                           authors |-> <<snippet.channelTitle>>,
                           abstract |-> snippet.description,
                           date |-> snippet.publishedAt,
                           url |-> watch,
                           confidence |-> 95,
                           enrichmentType |-> "youtube"])

(***************************************************************************)
(* The resolution chain as a function of the record, of the module's       *)
(* pattern table and of the answers of the providers                       *)
(***************************************************************************)
\* enrichSource's test of what extractMetadataHybrid returned
HybridAccepted(hybridMetadata) ==
    Found(hybridMetadata) /\ hybridMetadata.confidence >= HybridThreshold

\* parsed.author && parsed.year
HasAuthorYear(p) == p.author \notin {Null, ""} /\ p.year \notin {Null, "0000"}

\* DOI_PATTERNS is built once, when the script loads: the lastIndex of its
\* three patterns, each of which has the g flag
Loaded == [standard |-> 0, url |-> 0, embedded |-> 0]

\* a pattern used as the next-match cursor of RegExp.prototype.exec: the
\* scan starts at lastIndex and lastIndex is left behind what was scanned
MatchNext(s, lastIndex) ==
    [text |-> From(s, lastIndex + 1),
     lastIndex |-> IF lastIndex < Len(s) THEN Len(s) ELSE 0]

\* String.prototype.match with a pattern that has the g flag: lastIndex is
\* set to 0, the whole string is scanned, and the exec that finds no
\* further match leaves lastIndex at 0
MatchAll(s, lastIndex) == [text |-> s, lastIndex |-> 0]

\* extractDOI on the pattern table in state patterns: the DOI, and the
\* table as the scan of the title leaves it
ScanDOI(source, patterns) ==
    [doi |-> extractDOI([source EXCEPT
                            !.title = MatchAll(source.title, patterns.standard).text]),
     patterns |-> [k \in DOMAIN patterns |-> MatchAll(source.title, patterns[k]).lastIndex]]

\* A deterministic provider: how the identifier services and the search
\* services answer every request (the document, nothing, or a failure),
\* the title of the work they know, and the API key of the video service.
Stubs ==
    [identifiers : {"ok", "empty", "http-429"}, searches : {"ok", "empty", "http-429"},
     title : {"Deep Nets", "Gut Flora"}, apiKey : {Null, "key"}]

\* the response to a request for one document
Reply(answer, document, blank) ==
    IF answer = "ok" THEN Ok(document)
    ELSE IF answer = "empty" THEN Ok(blank)
    ELSE [status |-> answer, body |-> <<>>]

\* the response to a request for a list of hits
Hits(answer, hit) == Reply(answer, <<hit>>, <<>>)

\* the value of an expression, named once: the member of a singleton
Only(S) == CHOOSE v \in S : TRUE

\* the CrossRef work that stub p returns for DOI d
Work(p, d) == Reply(p.identifiers, CrossRefFull(p.title, d), CrossRefBare(d))

\* getMetadataFromURL with the providers of stub p
getMetadataFromURL(url, p) ==
    Only({CASE route.provider = "arxiv" ->
                   getMetadataFromArxiv(route.id,
                       Hits(p.identifiers,
                            [title |-> p.title, summary |-> "A summary",
                             published |-> "2017-06-12T17:57:34Z",
                             authors |-> <<"A Vaswani">>,
                             id |-> "http://arxiv.org/abs/1706.03762v5"]))
            [] route.provider = "pubmed" ->
                   getMetadataFromPubMed(route.id,
                       Hits(p.identifiers,
                            [title |-> p.title, authors |-> <<"Smith J">>,
                             fulljournalname |-> "Gut",
                             elocationid |-> "doi: 10.1000/xyz1"]))
            [] route.provider = "doi" -> getMetadataFromDOI(route.id, Work(p, route.id))
            [] OTHER -> NoMetadata : route \in {UrlRoute(url)}})

\* extractMetadataHybrid with the providers of stub p, doi being what
\* extractDOI returned: a record, or nothing (null)
extractMetadataHybrid(source, doi, p) ==
    Only({IF IsDoi(doi) /\ Found(byDoi)
          THEN Spread(Spread(source, byDoi), [hadDOI |-> TRUE])
          ELSE IF source.url # "" /\ Found(byUrl)
          THEN Spread(Spread(source, byUrl), [hadURL |-> TRUE])
          ELSE IF IsDoi(found)
          THEN Only({IF Found(byTitle)
                     THEN Spread(Spread(source, byTitle),
                                 [hadDOI |-> TRUE, foundByTitle |-> TRUE])
                     ELSE NoMetadata :
                        byTitle \in {getMetadataFromDOI(found, Work(p, found))}})
          ELSE NoMetadata :
             byDoi \in {getMetadataFromDOI(doi, Work(p, doi))},
             byUrl \in {getMetadataFromURL(source.url, p)},
             found \in {findDOIByTitle(source.title,
                                       Hits(p.searches, [DOI |-> GoodDoi, score |-> 85]))}})

\* enrichAcademic's choice among what its four queries returned
FirstMatch(source, name, structured, crossref, openalex, semanticscholar) ==
    IF HasAuthorYear(name) /\ Found(structured)
       /\ structured.confidence >= StructuredThreshold
    THEN Spread(Spread(source, structured), [enrichmentType |-> "structured_query"])
    ELSE IF Found(crossref) /\ crossref.confidence >= CrossRefThreshold
    THEN Spread(Spread(source, crossref), [enrichmentType |-> "crossref"])
    ELSE IF Found(openalex) /\ openalex.confidence >= OpenAlexThreshold
    THEN Spread(Spread(source, openalex), [enrichmentType |-> "openalex"])
    ELSE IF Found(semanticscholar)
            /\ semanticscholar.confidence >= SemanticScholarThreshold
    THEN Spread(Spread(source, semanticscholar), [enrichmentType |-> "semanticscholar"])
    ELSE NoMatch(source)

\* enrichAcademic's queries for the cleaned title, with the providers of
\* stub p
AcademicQueries(source, name, cleaned, p) ==
    Only({FirstMatch(source, name, structured, crossref, openalex, semanticscholar) :
            structured \in
                {IF HasAuthorYear(name)
                 THEN queryWithAuthorYear(name.author, name.year, cleaned,
                          Hits(p.searches, CrossRefFull(p.title, GoodDoi)))
                 ELSE NoMetadata},
            crossref \in
                {queryCrossRef(cleaned, Hits(p.searches, CrossRefFull(p.title, GoodDoi)))},
            openalex \in
                {queryOpenAlex(cleaned,
                     Hits(p.searches,
                          [title |-> p.title, authorships |-> <<"Ann Lee">>,
                           doi |-> "https://doi.org/10.1000/xyz1", venue |-> "J Nets",
                           abstract_inverted_index |->
                               << <<"nets", <<1>> >>, <<"deep", <<0, 2>> >> >>,
                           landing_page_url |-> "https://example.org/w1"]))},
            semanticscholar \in
                {querySemanticScholar(cleaned,
                     Hits(p.searches,
                          [title |-> p.title, authors |-> <<"Ann Lee">>, DOI |-> GoodDoi,
                           venue |-> "J Nets", abstract |-> "An abstract"]))}})

\* enrichAcademic with the providers of stub p
enrichAcademic(source, p) ==
    Only({AcademicQueries(source, name, cleaned, p) :
            name \in {parseFilenameMetadata(source.title)},
            cleaned \in {cleanTitleForSearch(source.title)}})

\* enrichSource's try around the hybrid chain: what the chain returned,
\* nothing when it threw (doi is what extractDOI returned)
TryHybrid(source, doi, p) ==
    IF doi = Throws THEN NoMetadata ELSE extractMetadataHybrid(source, doi, p)

\* the switch of enrichSource on the type of the source, with the
\* providers of stub p
enrichByType(source, kind, p) ==
    CASE kind = "academic" -> enrichAcademic(source, p)
      [] kind = "arxiv" ->
             enrichArxiv(source,
                 Hits(p.searches,
                      [title |-> p.title, summary |-> "A summary",
                       authors |-> <<"A Vaswani">>,
                       id |-> "http://arxiv.org/abs/1706.03762v5"]))
      [] kind = "web" ->
             enrichWeb(source,
                 Reply(p.searches,
                       [ogTitle |-> p.title, description |-> "A post",
                        author |-> "Ann Lee", published |-> "2024-01-05T10:00:00Z"],
                       NoMetadata))
      [] kind = "youtube" ->
             enrichYoutube(source, p.apiKey,
                 Hits(p.searches,
                      [title |-> p.title, channelTitle |-> "Chan",
                       description |-> "A talk",
                       publishedAt |-> "2023-02-01T00:00:00Z"]))
      [] OTHER -> NoMatch(source)

\* enrichSource with the providers of stub p, hybridMetadata being what
\* its try around the hybrid chain gave: that record when it is accepted,
\* the switch on the type of the source otherwise
enrichSource(source, hybridMetadata, p) ==
    IF HybridAccepted(hybridMetadata) THEN hybridMetadata
    ELSE enrichByType(source, detectSourceType(source), p)

(***************************************************************************)
(* The batch runner and the orchestrator as a state machine                *)
(***************************************************************************)
\* the longest batch
MaxRecords == 2

\* RATE_LIMITS.delay, the wait of findDOIByTitle and that of
\* querySemanticScholar, in milliseconds
RateLimitDelay == 200

DoiSearchDelay == 200

SemanticScholarDelay == 300

\* What the scraper hands over, index apart: title, url ('' when the
\* element has none), type and date (null when the element has none).
\* The notebook's source list, in its order.
Catalogue ==
    <<[title |-> "Talk", url |-> "https://youtu.be/dQw4w9WgXcQ", type |-> "youtube",
       date |-> Null],
      [title |-> "Lee - 2020 - 10.1000/ab12.pdf", url |-> "", type |-> "pdf", date |-> Null],
      [title |-> "Deep Nets", url |-> "https://doi.org/10.1000/xyz1", type |-> "web",
       date |-> "2024-01-05"],
      [title |-> "Attention Is All You Need", url |-> "https://arxiv.org/abs/1706.03762",
       type |-> "web", date |-> Null],
      [title |-> "Smith et al - 2024 - Gut Flora",
       url |-> "https://pubmed.ncbi.nlm.nih.gov/12345/", type |-> "unknown",
       date |-> "2024-01-05"],
      [title |-> "Notes", url |-> "", type |-> "unknown", date |-> Null]>>

\* extractSourceData(element, index): the record of the index-th element
InputRecord(r, index) == Spread(r, [index |-> index])

\* the n sources that are selected from the from-th on, the list wrapping
\* around
Selection(from, n) ==
    [k \in 1..n |-> InputRecord(Catalogue[((from + k - 2) % Len(Catalogue)) + 1], k - 1)]

\* the batches: every selection of one to MaxRecords consecutive sources
Batches ==
    {Selection(from, n) : from \in 1..Len(Catalogue), n \in 1..MaxRecords}

VARIABLES
    sources,         \* the batch (enrichSources' parameter)
    i,               \* the loop index of enrichSources, counted from 1
    pc,              \* where the run stands
    enriched,        \* the list enrichSources builds
    results,         \* its tallies
    progress,        \* the calls of progressCallback so far
    doi,             \* extractMetadataHybrid's doi
    enrichedSource,  \* the record enrichSource returned
    error,           \* the message of the exception being handled
    type,            \* enrichSource's type
    cleanTitle,      \* enrichAcademic's cleanTitle
    parsed,          \* enrichAcademic's parsed
    calls,           \* the provider calls made for the current record
    idle,            \* milliseconds since the previous record was emitted,
                     \* counted up to RateLimitDelay
    applied,         \* a single function of the engine that is being called on
                     \* its own: its name and arguments
    returned,        \* what that function returned
    itemsToCreate,   \* exportSourcesToZotero's itemsToCreate
    storage,         \* chrome.storage.local, the keys of the settings page
    form,            \* the input elements of the settings page
    statusMessage    \* the settings page's status message

\* the state of the Zotero export and of the settings page
zoteroVars == <<itemsToCreate, storage, form, statusMessage>>

vars == <<sources, i, pc, enriched, results, progress, doi, enrichedSource,
          error, type, cleanTitle, parsed, calls, idle, applied, returned, zoteroVars>>

source == sources[i]

\* the settings form as clearSettings leaves it
ClearedForm == [apiKey |-> "", libraryType |-> "user", userId |-> "", groupId |-> ""]

\* the status message before showStatus is called (class hidden)
NoStatus == [text |-> "", type |-> "hidden"]

\* no export runs and the settings page is not in use
ZoteroIdle ==
    /\ itemsToCreate = <<>>
    /\ storage = [k \in {} |-> Null]
    /\ form = ClearedForm
    /\ statusMessage = NoStatus

NoRecord == [k \in {} |-> Null]

\* no function is called on its own during a batch
NoApplication == [fn |-> Null]

Init ==
    /\ sources \in Batches
    /\ i = 1
    /\ pc = "loop"
    /\ enriched = <<>>
    /\ results = [success |-> 0, partial |-> 0, failed |-> 0]
    /\ progress = <<>>
    /\ doi = Null
    /\ enrichedSource = NoRecord
    /\ error = Null
    /\ type = Null
    /\ cleanTitle = ""
    /\ parsed = NoParse
    /\ calls = <<>>
    /\ idle = RateLimitDelay
    /\ applied = NoApplication
    /\ returned = Null
    /\ ZoteroIdle

\* time passes: ms more milliseconds since the previous record
Wait(ms) == Min(RateLimitDelay, idle + ms)

\* A provider call of strategy stage (1 identifier in the source, 2 URL
\* pattern, 3 identifier by title search, 4 the search strategies), sent
\* after `waited` milliseconds, and whether its answer was accepted.
Call(stage, provider, key, waited, accepted) ==
    [stage |-> stage, provider |-> provider, key |-> key, waited |-> waited,
     accepted |-> accepted]

\* the host of a URL that fetch is given
HostOf(url) ==
    LET start == IF StartsAt(url, 1, "https://") THEN 9
                 ELSE IF StartsAt(url, 1, "http://") THEN 8 ELSE 1
    IN  SubSeq(url, start, start + RunNot(url, start, {"/"}) - 1)

\* the host a provider call is sent to: that of the client's endpoint, and
\* for enrichWeb that of the record's own URL (the key of the call)
RequestHost(call) ==
    CASE call.provider \in {"crossref-doi", "crossref-doi-search", "crossref-structured",
                            "crossref-title"} -> "api.crossref.org"
      [] call.provider \in {"arxiv-id", "arxiv-query"} -> "export.arxiv.org"
      [] call.provider = "pubmed-id" -> "eutils.ncbi.nlm.nih.gov"
      [] call.provider = "openalex-title" -> "api.openalex.org"
      [] call.provider = "semanticscholar-title" -> "api.semanticscholar.org"
      [] call.provider = "youtube-video" -> "www.googleapis.com"
      [] call.provider = "web-page" -> HostOf(call.key)

\* progressCallback({current, total, type, results})
Report(current, kind) ==
    Append(progress, [current |-> current, total |-> Len(sources), type |-> kind])

\* enrichSource returns record
Return(record) ==
    /\ enrichedSource' = record
    /\ pc' = "classify"

\* the orchestrator goes on to step next without a result
Goto(next) ==
    /\ pc' = next
    /\ UNCHANGED enrichedSource

\* the for loop enters record i: the 'Processing...' progress call, then
\* enrichSource and extractMetadataHybrid up to extractDOI
BeginRecord ==
    /\ pc = "loop"
    /\ i <= Len(sources)
    /\ progress' = Report(i, "processing")
    /\ doi' = extractDOI(source)
    /\ calls' = <<>>
    /\ type' = Null
    /\ pc' = "hybridDoi"
    /\ UNCHANGED <<zoteroVars, applied, returned, sources, i, enriched, results,
                   enrichedSource, error, cleanTitle, parsed, idle>>

\* hybrid step 1: the DOI found in the title or the URL is looked up
HybridDoi ==
    /\ pc = "hybridDoi"
    /\ IF doi = Throws
       THEN Goto("fallback") /\ UNCHANGED calls
       ELSE IF doi = Null
       THEN Goto("hybridUrl") /\ UNCHANGED calls
       ELSE \E r \in DoiLookupResponses(doi) :
              LET metadata == getMetadataFromDOI(doi, r)
                  hybrid == Spread(Spread(source, metadata), [hadDOI |-> TRUE])
                  ok == Found(metadata) /\ HybridAccepted(hybrid)
              IN  /\ calls' = Append(calls, Call(1, "crossref-doi", doi, idle, ok))
                  /\ IF ok THEN Return(hybrid)
                     ELSE IF Found(metadata) THEN Goto("fallback")
                     ELSE Goto("hybridUrl")
    /\ UNCHANGED <<zoteroVars, applied, returned, sources, i, enriched, results,
                   progress, doi, error, type, cleanTitle, parsed, idle>>

\* what extractMetadataHybrid's step 2 does with getMetadataFromURL's answer
UrlResult(metadata, provider, key) ==
    LET hybrid == Spread(Spread(source, metadata), [hadURL |-> TRUE])
        ok == Found(metadata) /\ HybridAccepted(hybrid)
    IN  /\ calls' = Append(calls, Call(2, provider, key, idle, ok))
        /\ IF ok THEN Return(hybrid)
           ELSE IF Found(metadata) THEN Goto("fallback")
           ELSE Goto("hybridTitle")
        /\ UNCHANGED <<zoteroVars, applied, returned, sources, i, enriched, results,
                       progress, doi, error, type, cleanTitle, parsed, idle>>

\* hybrid step 2, a record without URL or a URL of no known shape
HybridUrlNone ==
    /\ pc = "hybridUrl"
    /\ source.url = "" \/ UrlRoute(source.url).provider = "none"
    /\ Goto("hybridTitle")
    /\ UNCHANGED <<zoteroVars, applied, returned, sources, i, enriched, results,
                   progress, doi, error, type, cleanTitle, parsed, calls, idle>>

\* hybrid step 2, an arXiv URL
HybridUrlArxiv ==
    /\ pc = "hybridUrl"
    /\ source.url # ""
    /\ LET route == UrlRoute(source.url)
       IN  /\ route.provider = "arxiv"
           /\ \E r \in ArxivResponses :
                  UrlResult(getMetadataFromArxiv(route.id, r), "arxiv-id", route.id)

\* hybrid step 2, a PubMed URL
HybridUrlPubMed ==
    /\ pc = "hybridUrl"
    /\ source.url # ""
    /\ LET route == UrlRoute(source.url)
       IN  /\ route.provider = "pubmed"
           /\ \E r \in PubMedResponses :
                  UrlResult(getMetadataFromPubMed(route.id, r), "pubmed-id", route.id)

\* hybrid step 2, a URL that holds a DOI
HybridUrlDoi ==
    /\ pc = "hybridUrl"
    /\ source.url # ""
    /\ LET route == UrlRoute(source.url)
       IN  /\ route.provider = "doi"
           /\ \E r \in DoiLookupResponses(route.id) :
                  UrlResult(getMetadataFromDOI(route.id, r), "crossref-doi", route.id)

\* hybrid step 3, findDOIByTitle: its wait, then its search; the call log
\* keeps what the provider answered
HybridTitleSearch ==
    /\ pc = "hybridTitle"
    /\ idle' = Wait(DoiSearchDelay)
    /\ \E r \in DoiSearchResponses :
          /\ doi' = findDOIByTitle(source.title, r)
          /\ calls' = Append(calls, Spread(Call(3, "crossref-doi-search", source.title,
                                                 idle', FALSE),
                                            [answer |-> r]))
          /\ IF IsDoi(doi') THEN Goto("hybridTitleDoi") ELSE Goto("fallback")
    /\ UNCHANGED <<zoteroVars, applied, returned, sources, i, enriched, results,
                   progress, error, type, cleanTitle, parsed>>

\* a step 3 that tags its record as the result of the title search
HybridTitleDoiTaggedAsSearch ==
    /\ pc = "hybridTitleDoi"
    /\ \E r \in DoiLookupResponses(doi) :
          LET metadata == getMetadataFromDOI(doi, r)
              hybrid == Spread(Spread(source, metadata),
                               [hadDOI |-> TRUE, foundByTitle |-> TRUE,
                                enrichmentSource |-> "CrossRef (title search)"])
              ok == Found(metadata) /\ HybridAccepted(hybrid)
          IN  /\ calls' = Append(calls, Call(3, "crossref-doi", doi, idle, ok))
              /\ IF ok THEN Return(hybrid) ELSE Goto("fallback")
    /\ UNCHANGED <<zoteroVars, applied, returned, sources, i, enriched, results,
                   progress, doi, error, type, cleanTitle, parsed, idle>>

\* hybrid step 3, the DOI the search found is looked up
HybridTitleDoi ==
    /\ pc = "hybridTitleDoi"
    /\ \E r \in DoiLookupResponses(doi) :
          LET metadata == getMetadataFromDOI(doi, r)
              hybrid == Spread(Spread(source, metadata),
                               [hadDOI |-> TRUE, foundByTitle |-> TRUE])
              ok == Found(metadata) /\ HybridAccepted(hybrid)
          IN  /\ calls' = Append(calls, Call(3, "crossref-doi", doi, idle, ok))
              /\ IF ok THEN Return(hybrid) ELSE Goto("fallback")
    /\ UNCHANGED <<zoteroVars, applied, returned, sources, i, enriched, results,
                   progress, doi, error, type, cleanTitle, parsed, idle>>

\* enrichSource's switch on detectSourceType, with the start of
\* enrichAcademic (the title is cleaned and parsed)
Dispatch ==
    /\ pc = "fallback"
    /\ type' = detectSourceType(source)
    /\ IF type' = "academic"
       THEN /\ cleanTitle' = cleanTitleForSearch(source.title)
            /\ parsed' = parseFilenameMetadata(source.title)
            /\ Goto(IF HasAuthorYear(parsed') THEN "structured" ELSE "crossref")
       ELSE /\ UNCHANGED <<cleanTitle, parsed>>
            /\ IF type' \in {"arxiv", "web", "youtube"} THEN Goto(type')
               ELSE Return(NoMatch(source))
    /\ UNCHANGED <<zoteroVars, applied, returned, sources, i, enriched, results,
                   progress, doi, error, calls, idle>>

\* an enrichAcademic that goes on to the next provider after a match
SearchResultWithoutReturn(metadata, threshold, enrichmentType, provider, next) ==
    LET ok == Found(metadata) /\ metadata.confidence >= threshold
    IN  /\ calls' = Append(calls, Call(4, provider, cleanTitle, idle', ok))
        /\ IF next = "none"
           THEN IF ok
                THEN Return(Spread(Spread(source, metadata),
                                   [enrichmentType |-> enrichmentType]))
                ELSE Return(NoMatch(source))
           ELSE Goto(next)
        /\ UNCHANGED <<zoteroVars, applied, returned, sources, i, enriched, results,
                       progress, doi, error, type, cleanTitle, parsed>>

\* what enrichAcademic does with the answer of one of its queries
SearchResult(metadata, threshold, enrichmentType, provider, next) ==
    LET ok == Found(metadata) /\ metadata.confidence >= threshold
    IN  /\ calls' = Append(calls, Call(4, provider, cleanTitle, idle', ok))
        /\ IF ok
           THEN Return(Spread(Spread(source, metadata), [enrichmentType |-> enrichmentType]))
           ELSE IF next = "none" THEN Return(NoMatch(source))
           ELSE Goto(next)
        /\ UNCHANGED <<zoteroVars, applied, returned, sources, i, enriched, results,
                       progress, doi, error, type, cleanTitle, parsed>>

\* enrichAcademic, strategy 1: the structured author and year query
Structured ==
    /\ pc = "structured"
    /\ UNCHANGED idle
    /\ \E r \in CrossRefSearchResponses :
          SearchResult(queryWithAuthorYear(parsed.author, parsed.year, cleanTitle, r),
                       StructuredThreshold, "structured_query", "crossref-structured",
                       "crossref")

\* an enrichAcademic that goes from CrossRef straight to Semantic Scholar
CrossRefThenSemanticScholar ==
    /\ pc = "crossref"
    /\ UNCHANGED idle
    /\ \E r \in CrossRefSearchResponses :
          SearchResult(queryCrossRef(cleanTitle, r), CrossRefThreshold, "crossref",
                       "crossref-title", "semanticscholar")

\* enrichAcademic, strategy 2: CrossRef by title
CrossRef ==
    /\ pc = "crossref"
    /\ UNCHANGED idle
    /\ \E r \in CrossRefSearchResponses :
          SearchResult(queryCrossRef(cleanTitle, r), CrossRefThreshold, "crossref",
                       "crossref-title", "openalex")

\* enrichAcademic, strategy 3: OpenAlex
OpenAlex ==
    /\ pc = "openalex"
    /\ UNCHANGED idle
    /\ \E r \in OpenAlexResponses :
          SearchResult(queryOpenAlex(cleanTitle, r), OpenAlexThreshold, "openalex",
                       "openalex-title", "semanticscholar")

\* enrichAcademic, strategy 4: Semantic Scholar, after its wait
SemanticScholar ==
    /\ pc = "semanticscholar"
    /\ idle' = Wait(SemanticScholarDelay)
    /\ \E r \in SemanticScholarResponses :
          SearchResult(querySemanticScholar(cleanTitle, r), SemanticScholarThreshold,
                       "semanticscholar", "semanticscholar-title", "none")

\* enrichArxiv
Arxiv ==
    /\ pc = "arxiv"
    /\ \E r \in ArxivResponses :
          LET record == enrichArxiv(source, r)
          IN  /\ calls' = Append(calls, Call(4, "arxiv-query", ArxivQuery(source), idle,
                                             Has(record, "enrichmentType")))
              /\ Return(record)
    /\ UNCHANGED <<zoteroVars, applied, returned, sources, i, enriched, results,
                   progress, doi, error, type, cleanTitle, parsed, idle>>

\* enrichWeb: the page of the record's URL is fetched, when it has one
Web ==
    /\ pc = "web"
    /\ IF source.url = ""
       THEN Return(Unmatched(source)) /\ UNCHANGED calls
       ELSE \E r \in WebResponses :
              LET record == enrichWeb(source, r)
              IN  /\ calls' = Append(calls, Call(4, "web-page", source.url, idle,
                                                 Has(record, "enrichmentType")))
                  /\ Return(record)
    /\ UNCHANGED <<zoteroVars, applied, returned, sources, i, enriched, results,
                   progress, doi, error, type, cleanTitle, parsed, idle>>

\* a try block that ends with the hybrid attempt, which leaves the switch
\* of enrichSource unprotected
TryBlockHybridOnly == {"hybridDoi", "hybridUrl", "hybridTitle", "hybridTitleDoi"}

\* the steps of a record that run inside enrichSources' try block: the call
\* of enrichSource, the tally, the push and the sleep
TryBlock ==
    {"hybridDoi", "hybridUrl", "hybridTitle", "hybridTitleDoi", "fallback", "structured",
     "crossref", "openalex", "semanticscholar", "arxiv", "web", "youtube", "classify",
     "sleep"}

\* an exception no inner try catches: enrichSources' catch block takes it
\* when the step is inside its try block, the caller otherwise
Throw(message) ==
    /\ error' = message
    /\ pc' = IF pc \in TryBlock THEN "catch" ELSE "escaped"

\* enrichYoutube: without video id nothing is read or sent; reading the
\* API key may throw, outside every try of enrichYoutube and enrichSource
Youtube ==
    /\ pc = "youtube"
    /\ LET videoId == extractYoutubeId(IF source.url # "" THEN source.url
                                       ELSE source.title)
       IN  IF videoId = Null
           THEN Return(Unmatched(source)) /\ UNCHANGED <<calls, error>>
           ELSE \E apiKey \in ApiKeys :
                  IF apiKey = Throws
                  THEN /\ Throw("localStorage is not available")
                       /\ UNCHANGED <<calls, enrichedSource>>
                  ELSE IF apiKey = Null
                  THEN /\ Return(enrichYoutube(source, apiKey, Ok(<<>>)))
                       /\ UNCHANGED <<calls, error>>
                  ELSE \E r \in YoutubeResponses :
                         LET record == enrichYoutube(source, apiKey, r)
                         IN  /\ calls' = Append(calls,
                                     Call(4, "youtube-video", videoId, idle,
                                          Has(record, "enrichmentType")))
                             /\ Return(record)
                             /\ UNCHANGED error
    /\ UNCHANGED <<zoteroVars, applied, returned, sources, i, enriched, results,
                   progress, doi, type, cleanTitle, parsed, idle>>

\* enrichedSource.authors?.length > 0
HasAuthors(record) == Has(record, "authors") /\ Len(record.authors) > 0

hasFullMetadata(record) ==
    HasAuthors(record)
    /\ (Truthy(record, "doi") \/ Truthy(record, "abstract") \/ Truthy(record, "journal"))

\* a partial test that looks at the authors alone
hasPartialAuthorsOnly(record) == HasAuthors(record)

hasPartialMetadata(record) ==
    HasAuthors(record) \/ Truthy(record, "doi") \/ Truthy(record, "abstract")

\* the outcome enrichSources tallies for a record
Outcome(record) ==
    IF hasFullMetadata(record) THEN "success"
    ELSE IF hasPartialMetadata(record) THEN "partial"
    ELSE "failed"

\* a try block that merges the result into the input object
\* (Object.assign(source, enrichedSource)) before it pushes it
ClassifyInPlace ==
    /\ pc = "classify"
    /\ results' = [results EXCEPT ![Outcome(enrichedSource)] = @ + 1]
    /\ progress' = Report(i, Outcome(enrichedSource))
    /\ sources' = [sources EXCEPT ![i] = Spread(@, enrichedSource)]
    /\ enriched' = Append(enriched, sources'[i])
    /\ idle' = 0
    /\ pc' = "sleep"
    /\ UNCHANGED <<zoteroVars, applied, returned, i, doi, enrichedSource, error, type,
                   cleanTitle, parsed, calls>>

\* the try block after enrichSource returned: the tally, the progress
\* call, the push
Classify ==
    /\ pc = "classify"
    /\ results' = [results EXCEPT ![Outcome(enrichedSource)] = @ + 1]
    /\ progress' = Report(i, Outcome(enrichedSource))
    /\ enriched' = Append(enriched, enrichedSource)
    /\ idle' = 0
    /\ pc' = "sleep"
    /\ UNCHANGED <<zoteroVars, applied, returned, sources, i, doi, enrichedSource,
                   error, type, cleanTitle, parsed, calls>>

\* await sleep(RATE_LIMITS.delay), the end of the try block
Sleep ==
    /\ pc = "sleep"
    /\ idle' = Wait(RateLimitDelay)
    /\ i' = i + 1
    /\ pc' = "loop"
    /\ UNCHANGED <<zoteroVars, applied, returned, sources, enriched, results, progress,
                   doi, enrichedSource, error, type, cleanTitle, parsed, calls>>

\* a catch block that counts the failure and emits nothing
CatchDropsRecord ==
    /\ pc = "catch"
    /\ results' = [results EXCEPT !.failed = @ + 1]
    /\ progress' = Report(i, "error")
    /\ idle' = 0
    /\ error' = Null
    /\ i' = i + 1
    /\ pc' = "loop"
    /\ UNCHANGED <<zoteroVars, applied, returned, sources, enriched, doi,
                   enrichedSource, type, cleanTitle, parsed, calls>>

\* a catch block that emits the record and leaves the loop
CatchStopsBatch ==
    /\ pc = "catch"
    /\ results' = [results EXCEPT !.failed = @ + 1]
    /\ enriched' = Append(enriched, Spread(source, [confidence |-> 0, error |-> error]))
    /\ progress' = Report(i, "error")
    /\ idle' = 0
    /\ error' = Null
    /\ i' = Len(sources) + 1
    /\ pc' = "loop"
    /\ UNCHANGED <<zoteroVars, applied, returned, sources, doi, enrichedSource, type,
                   cleanTitle, parsed, calls>>

\* the catch block of enrichSources
Catch ==
    /\ pc = "catch"
    /\ results' = [results EXCEPT !.failed = @ + 1]
    /\ enriched' = Append(enriched, Spread(source, [confidence |-> 0, error |-> error]))
    /\ progress' = Report(i, "error")
    /\ idle' = 0
    /\ error' = Null
    /\ i' = i + 1
    /\ pc' = "loop"
    /\ UNCHANGED <<zoteroVars, applied, returned, sources, doi, enrichedSource, type,
                   cleanTitle, parsed, calls>>

\* a return without the final progress call
FinishWithoutReport ==
    /\ pc = "loop"
    /\ i > Len(sources)
    /\ pc' = "done"
    /\ UNCHANGED <<zoteroVars, applied, returned, sources, i, enriched, results,
                   progress, doi, enrichedSource, error, type, cleanTitle, parsed,
                   calls, idle>>

\* after the loop: the final progress call, and the return of enriched
Finish ==
    /\ pc = "loop"
    /\ i > Len(sources)
    /\ progress' = Append(progress,
                          [current |-> Len(sources), total |-> Len(sources),
                           type |-> "complete", results |-> results])
    /\ pc' = "done"
    /\ UNCHANGED <<zoteroVars, applied, returned, sources, i, enriched, results, doi,
                   enrichedSource, error, type, cleanTitle, parsed, calls, idle>>

Next ==
    \/ BeginRecord
    \/ HybridDoi
    \/ HybridUrlNone
    \/ HybridUrlArxiv
    \/ HybridUrlPubMed
    \/ HybridUrlDoi
    \/ HybridTitleSearch
    \/ HybridTitleDoi
    \/ Dispatch
    \/ Structured
    \/ CrossRef
    \/ OpenAlex
    \/ SemanticScholar
    \/ Arxiv
    \/ Web
    \/ Youtube
    \/ Classify
    \/ Sleep
    \/ Catch
    \/ Finish

Spec == Init /\ [][Next]_vars
-----------------------------------------------------------------------------
(***************************************************************************)
(* The functions of the engine called on their own: a function is called   *)
(* once on arguments drawn from the sets below, and returns.               *)
(***************************************************************************)

\* the titles the search clients are asked for
SearchTitles == {"Deep Nets", "Smith - Gut Flora"}

\* the titles that are compared: empty, without a letter or digit, equal
\* but for case, punctuation and spaces, one inside the other, the same
\* words in another order, and unrelated
ComparedTitles ==
    {"", "!!!", "Deep Nets", " deep  nets!", "Deep", "Nets Deep", "Deep Nets 2", "Gut Flora"}

\* titles of uploaded files that hold a DOI: alone, before the file
\* extension, before a full stop, and before a further word
FileTitles ==
    {"10.1038/s41586-024-01234-5",
     "Smith et al - 2024 - 10.1038/s41586-024-01234-5.pdf",
     "See 10.1038/s41586-024-01234-5.",
     "10.1038/s41586-024-01234-5 final"}

\* records that spell the DOI 10.1000/xyz1 in their title or in their URL:
\* bare, in upper case, after a doi marker, after a resolver URL
Spellings ==
    {[title |-> t, url |-> "", type |-> "pdf", date |-> "", index |-> 0] :
        t \in {"10.1000/xyz1", "10.1000/XYZ1", "doi:10.1000/xyz1", "DOI: 10.1000/xyz1",
               "https://doi.org/10.1000/xyz1"}}
      \cup {[title |-> "Paper", url |-> u, type |-> "web", date |-> "", index |-> 0] :
                u \in {"https://doi.org/10.1000/xyz1", "http://dx.doi.org/10.1000/xyz1",
                       "https://doi.org/10.1000/XYZ1"}}

\* File names for the parser: one for each pattern, three that two
\* patterns match with different results, and one that none matches.
FilenameTitles ==
    {"Smith et al - 2024 - Title.pdf", "Jones & Brown (2023) - Climate Models.pdf",
     "Lee - 2020 - Title.pdf", "Kim 2021 Deep Nets.pdf", "Smith et al - 2024 (2020).pdf",
     "Lee - 2020 (2021).pdf", "Kim 2021 (2022) Nets.pdf", "Notes.pdf"}

\* a client called with args, the provider answering r
ClientCall(fn, args, r) == [fn |-> fn, args |-> args, r |-> r]

\* the calls of the provider clients, with every answer of their provider
ClientCalled ==
    \/ \E r \in DoiLookupResponses(GoodDoi) :
          applied = ClientCall("getMetadataFromDOI", <<GoodDoi>>, r)
    \/ \E r \in ArxivResponses :
          applied = ClientCall("getMetadataFromArxiv", <<"1706.03762">>, r)
    \/ \E r \in PubMedResponses :
          applied = ClientCall("getMetadataFromPubMed", <<"12345">>, r)
    \/ \E t \in SearchTitles, r \in DoiSearchResponses :
          applied = ClientCall("findDOIByTitle", <<t>>, r)
    \/ \E t \in SearchTitles, r \in CrossRefSearchResponses :
          applied = ClientCall("queryWithAuthorYear", <<"Smith", "2024", t>>, r)
    \/ \E t \in SearchTitles, r \in CrossRefSearchResponses :
          applied = ClientCall("queryCrossRef", <<t>>, r)
    \/ \E t \in SearchTitles, r \in OpenAlexResponses :
          applied = ClientCall("queryOpenAlex", <<t>>, r)
    \/ \E t \in SearchTitles, r \in SemanticScholarResponses :
          applied = ClientCall("querySemanticScholar", <<t>>, r)
    \/ \E k \in DOMAIN Catalogue, p \in Stubs :
          applied = ClientCall("enrichSource", <<InputRecord(Catalogue[k], 0)>>, p)
    \/ \E a \in ComparedTitles, b \in ComparedTitles :
          applied = ClientCall("calculateTitleSimilarity", <<a, b>>, Null)
    \/ \E t \in FileTitles :
          applied = ClientCall("extractDOI",
                               <<[title |-> t, url |-> "", type |-> "pdf", date |-> "",
                                  index |-> 0]>>, Null)
    \/ \E record \in Spellings : applied = ClientCall("cleanDOI", <<record>>, Null)
    \/ \E t \in FilenameTitles : applied = ClientCall("parseFilenameMetadata", <<t>>, Null)

\* nothing of the batch runner runs while a function is called on its own
FunctionInit ==
    /\ sources = <<>>
    /\ i = 1
    /\ pc = "apply"
    /\ enriched = <<>>
    /\ results = [success |-> 0, partial |-> 0, failed |-> 0]
    /\ progress = <<>>
    /\ doi = Null
    /\ enrichedSource = NoRecord
    /\ error = Null
    /\ type = Null
    /\ cleanTitle = ""
    /\ parsed = NoParse
    /\ calls = <<>>
    /\ idle = RateLimitDelay
    /\ returned = Null
    /\ ZoteroIdle
    /\ ClientCalled

\* the function that is called returns value
Returns(value) ==
    /\ pc = "apply"
    /\ returned' = value
    /\ pc' = "applied"
    /\ UNCHANGED <<zoteroVars, applied, sources, i, enriched, results, progress, doi,
                   enrichedSource, error, type, cleanTitle, parsed, calls, idle>>

ApplyGetMetadataFromDOI ==
    /\ applied.fn = "getMetadataFromDOI"
    /\ Returns(getMetadataFromDOI(applied.args[1], applied.r))

ApplyGetMetadataFromArxiv ==
    /\ applied.fn = "getMetadataFromArxiv"
    /\ Returns(getMetadataFromArxiv(applied.args[1], applied.r))

ApplyGetMetadataFromPubMed ==
    /\ applied.fn = "getMetadataFromPubMed"
    /\ Returns(getMetadataFromPubMed(applied.args[1], applied.r))

ApplyFindDOIByTitle ==
    /\ applied.fn = "findDOIByTitle"
    /\ Returns(findDOIByTitle(applied.args[1], applied.r))

ApplyQueryWithAuthorYear ==
    /\ applied.fn = "queryWithAuthorYear"
    /\ Returns(queryWithAuthorYear(applied.args[1], applied.args[2], applied.args[3],
                                   applied.r))

ApplyQueryCrossRef ==
    /\ applied.fn = "queryCrossRef"
    /\ Returns(queryCrossRef(applied.args[1], applied.r))

ApplyQueryOpenAlex ==
    /\ applied.fn = "queryOpenAlex"
    /\ Returns(queryOpenAlex(applied.args[1], applied.r))

ApplyQuerySemanticScholar ==
    /\ applied.fn = "querySemanticScholar"
    /\ Returns(querySemanticScholar(applied.args[1], applied.r))

\* enrichSource is run twice on the same record; extractDOI of the second
\* run finds the pattern table as extractDOI of the first run left it
ApplyExtractDOITwice ==
    /\ applied.fn = "enrichSource"
    /\ pc = "apply"
    /\ \E first \in {ScanDOI(applied.args[1], Loaded)} :
          returned' = <<first.doi, ScanDOI(applied.args[1], first.patterns).doi>>
    /\ pc' = "hybrid"
    /\ UNCHANGED <<zoteroVars, applied, sources, i, enriched, results, progress, doi,
                   enrichedSource, error, type, cleanTitle, parsed, calls, idle>>

\* the hybrid chain of run number run, inside enrichSource's try
ApplyTryHybrid(run) ==
    /\ applied.fn = "enrichSource"
    /\ pc = "hybrid"
    /\ Len(enriched) = run - 1
    /\ enriched' = Append(enriched, TryHybrid(applied.args[1], returned[run], applied.r))
    /\ UNCHANGED <<zoteroVars, applied, returned, sources, i, pc, results, progress,
                   doi, enrichedSource, error, type, cleanTitle, parsed, calls, idle>>

\* the two runs finish: what enrichSource returns in each of them
ApplyEnrichSourceTwice ==
    /\ applied.fn = "enrichSource"
    /\ pc = "hybrid"
    /\ Len(enriched) = 2
    /\ LET record == [run \in 1..2 |->
                         enrichSource(applied.args[1], enriched[run], applied.r)]
       IN  returned' = <<record[1], record[2]>>
    /\ pc' = "applied"
    /\ UNCHANGED <<zoteroVars, applied, sources, i, enriched, results, progress, doi,
                   enrichedSource, error, type, cleanTitle, parsed, calls, idle>>

\* calculateTitleSimilarity on a pair of titles, on the pair swapped, and
\* on the first title with itself
ApplyCalculateTitleSimilarity ==
    /\ applied.fn = "calculateTitleSimilarity"
    /\ Returns([ab |-> calculateTitleSimilarity(applied.args[1], applied.args[2]),
                ba |-> calculateTitleSimilarity(applied.args[2], applied.args[1]),
                aa |-> calculateTitleSimilarity(applied.args[1], applied.args[1])])

ApplyExtractDOI ==
    /\ applied.fn = "extractDOI"
    /\ Returns(extractDOI(applied.args[1]))

\* cleanDOI as extractDOI calls it, on what it found in a record
ApplyCleanDOI ==
    /\ applied.fn = "cleanDOI"
    /\ Returns(extractDOI(applied.args[1]))

ApplyParseFilenameMetadata ==
    /\ applied.fn = "parseFilenameMetadata"
    /\ Returns(parseFilenameMetadata(applied.args[1]))

FunctionNext ==
    \/ ApplyGetMetadataFromDOI
    \/ ApplyGetMetadataFromArxiv
    \/ ApplyGetMetadataFromPubMed
    \/ ApplyFindDOIByTitle
    \/ ApplyQueryWithAuthorYear
    \/ ApplyQueryCrossRef
    \/ ApplyQueryOpenAlex
    \/ ApplyQuerySemanticScholar
    \/ ApplyExtractDOITwice
    \/ \E run \in 1..2 : ApplyTryHybrid(run)
    \/ ApplyEnrichSourceTwice
    \/ ApplyCalculateTitleSimilarity
    \/ ApplyExtractDOI
    \/ ApplyCleanDOI
    \/ ApplyParseFilenameMetadata

SpecFunctions == FunctionInit /\ [][FunctionNext]_vars

-----------------------------------------------------------------------------
(***************************************************************************)
(* The suspension points of a batch run.  Every provider call of the       *)
(* engine is `await fetch(...)` inside an awaited function: the request is *)
(* sent, the run is suspended, and it goes on when the response settles.   *)
(* Here a call takes two steps, and what the provider answers is reduced   *)
(* to what the engine does with it.  calls logs the requests of the whole  *)
(* batch: the record, the provider, whether the response has settled.      *)
(***************************************************************************)
\* the steps of a record that may send a request
CallStages ==
    {"hybridDoi", "hybridUrl", "hybridTitle", "hybridTitleDoi", "structured", "crossref",
     "openalex", "semanticscholar", "arxiv", "web", "youtube"}

\* the provider a step sends its request to, null when the step sends none
Fetches(stage) ==
    CASE stage = "hybridDoi" ->
            IF doi \in {Null, Throws} THEN Null ELSE "crossref-doi"
      [] stage = "hybridUrl" ->
            IF source.url = "" THEN Null
            ELSE LET provider == UrlRoute(source.url).provider
                 IN  CASE provider = "arxiv" -> "arxiv-id"
                       [] provider = "pubmed" -> "pubmed-id"
                       [] provider = "doi" -> "crossref-doi"
                       [] OTHER -> Null
      [] stage = "hybridTitle" -> "crossref-doi-search"
      [] stage = "hybridTitleDoi" -> "crossref-doi"
      [] stage = "structured" -> "crossref-structured"
      [] stage = "crossref" -> "crossref-title"
      [] stage = "openalex" -> "openalex-title"
      [] stage = "semanticscholar" -> "semanticscholar-title"
      [] stage = "arxiv" -> "arxiv-query"
      [] stage = "web" -> IF source.url = "" THEN Null ELSE "web-page"
      [] stage = "youtube" ->
            IF extractYoutubeId(IF source.url # "" THEN source.url ELSE source.title) = Null
            THEN Null ELSE "youtube-video"

\* the step that follows a step that sent nothing or got nothing
After(stage) ==
    CASE stage = "hybridDoi" -> IF doi = Throws THEN "fallback" ELSE "hybridUrl"
      [] stage = "hybridUrl" -> "hybridTitle"
      [] stage = "hybridTitle" -> "fallback"
      [] stage = "hybridTitleDoi" -> "fallback"
      [] stage = "structured" -> "crossref"
      [] stage = "crossref" -> "openalex"
      [] stage = "openalex" -> "semanticscholar"
      [] stage \in {"semanticscholar", "arxiv", "web", "youtube"} -> "classify"

\* What the engine makes of a response: it returns the record ("accepted"),
\* it has a DOI to look up ("doi", the title search alone), it has metadata
\* that enrichSource finds too weak ("weak", the identifier lookups alone),
\* or it has nothing.
Answers(stage) ==
    CASE stage = "hybridTitle" -> {"doi", "nothing"}
      [] stage \in {"hybridDoi", "hybridUrl", "hybridTitleDoi"} ->
            {"accepted", "weak", "nothing"}
      [] OTHER -> {"accepted", "nothing"}

\* the step a suspended step is resumed at
Awaiting(stage) == "await-" \o stage

\* for (let i = 0; ...): the record is entered, extractDOI has run
EnterRecord ==
    /\ pc = "loop"
    /\ i <= Len(sources)
    /\ doi' = extractDOI(source)
    /\ pc' = "hybridDoi"
    /\ UNCHANGED <<zoteroVars, sources, i, enriched, results, progress, enrichedSource,
                   error, type, cleanTitle, parsed, calls, idle, applied, returned>>

\* a fetch whose promise is dropped: the run goes on while the request is
\* in flight
FetchWithoutAwait ==
    /\ pc \in CallStages
    /\ Fetches(pc) # Null
    /\ calls' = Append(calls, [record |-> i, provider |-> Fetches(pc), settled |-> FALSE])
    /\ pc' = After(pc)
    /\ UNCHANGED <<zoteroVars, sources, i, enriched, results, progress, doi,
                   enrichedSource, error, type, cleanTitle, parsed, idle, applied,
                   returned>>

\* await fetch(url): the request is sent and the run is suspended
Fetch ==
    /\ pc \in CallStages
    /\ Fetches(pc) # Null
    /\ calls' = Append(calls, [record |-> i, provider |-> Fetches(pc), settled |-> FALSE])
    /\ pc' = Awaiting(pc)
    /\ UNCHANGED <<zoteroVars, sources, i, enriched, results, progress, doi,
                   enrichedSource, error, type, cleanTitle, parsed, idle, applied,
                   returned>>

\* a step whose condition for a request does not hold
Pass ==
    /\ pc \in CallStages
    /\ Fetches(pc) = Null
    /\ pc' = After(pc)
    /\ UNCHANGED <<zoteroVars, sources, i, enriched, results, progress, doi,
                   enrichedSource, error, type, cleanTitle, parsed, calls, idle,
                   applied, returned>>

\* the response settles and the run is resumed
Settle ==
    \E stage \in CallStages :
        /\ pc = Awaiting(stage)
        /\ calls' = [calls EXCEPT ![Len(calls)].settled = TRUE]
        /\ \E answer \in Answers(stage) :
              /\ pc' = CASE answer = "accepted" -> "classify"
                         [] answer = "doi" -> "hybridTitleDoi"
                         [] answer = "weak" -> "fallback"
                         [] answer = "nothing" -> After(stage)
              /\ doi' = IF answer = "doi" THEN GoodDoi ELSE doi
        /\ UNCHANGED <<zoteroVars, sources, i, enriched, results, progress,
                       enrichedSource, error, type, cleanTitle, parsed, idle, applied,
                       returned>>

\* enrichSource's switch on detectSourceType
Switch ==
    /\ pc = "fallback"
    /\ type' = detectSourceType(source)
    /\ pc' = CASE type' = "academic" ->
                    IF HasAuthorYear(parseFilenameMetadata(source.title))
                    THEN "structured" ELSE "crossref"
               [] type' \in {"arxiv", "web", "youtube"} -> type'
               [] OTHER -> "classify"
    /\ UNCHANGED <<zoteroVars, sources, i, enriched, results, progress, doi,
                   enrichedSource, error, cleanTitle, parsed, calls, idle, applied,
                   returned>>

\* enriched.push(enrichedSource), await sleep(RATE_LIMITS.delay), i++
Emit ==
    /\ pc = "classify"
    /\ enriched' = Append(enriched, source)
    /\ i' = i + 1
    /\ pc' = "loop"
    /\ UNCHANGED <<zoteroVars, sources, results, progress, doi, enrichedSource, error,
                   type, cleanTitle, parsed, calls, idle, applied, returned>>

\* return enriched
ReturnEnriched ==
    /\ pc = "loop"
    /\ i > Len(sources)
    /\ pc' = "done"
    /\ UNCHANGED <<zoteroVars, sources, i, enriched, results, progress, doi,
                   enrichedSource, error, type, cleanTitle, parsed, calls, idle,
                   applied, returned>>

AwaitNext ==
    \/ EnterRecord
    \/ Fetch
    \/ Pass
    \/ Settle
    \/ Switch
    \/ Emit
    \/ ReturnEnriched

SpecAwait == Init /\ [][AwaitNext]_vars

-----------------------------------------------------------------------------
(***************************************************************************)
(* The Zotero export (exportSourcesToZotero).  A record stands for itself  *)
(* and for the Zotero item made of it, and is written as its index: the    *)
(* tallies depend on how many records there are and on which item-creation *)
(* requests fail, not on what a record holds.  calls logs the requests of  *)
(* createZoteroItems: the items sent and whether the response was OK.      *)
(***************************************************************************)
\* the longest list of sources that is exported
MaxSources == 51

\* itemsToCreate.length >= 50
BatchSize == 50

ExportInit ==
    /\ sources \in {[k \in 1..n |-> k - 1] : n \in 0..MaxSources}
    /\ i = 1
    /\ pc = "enrich"
    /\ enriched = <<>>
    /\ results = [created |-> 0, skipped |-> 0, failed |-> 0]
    /\ progress = <<>>
    /\ doi = Null
    /\ enrichedSource = NoRecord
    /\ error = Null
    /\ type = Null
    /\ cleanTitle = ""
    /\ parsed = NoParse
    /\ calls = <<>>
    /\ idle = RateLimitDelay
    /\ applied = NoApplication
    /\ returned = Null
    /\ ZoteroIdle

\* Step 1, one turn of the loop: enrichSingleSource's record is pushed, or
\* the source itself when it throws; one record either way.
EnrichForExport ==
    /\ pc = "enrich"
    /\ i <= Len(sources)
    /\ enriched' = Append(enriched, source)
    /\ i' = i + 1
    /\ UNCHANGED <<sources, pc, results, progress, doi, enrichedSource, error, type,
                   cleanTitle, parsed, calls, idle, applied, returned, zoteroVars>>

\* the end of step 1
BeginConversion ==
    /\ pc = "enrich"
    /\ i > Len(sources)
    /\ i' = 1
    /\ pc' = "convert"
    /\ UNCHANGED <<sources, enriched, results, progress, doi, enrichedSource, error, type,
                   cleanTitle, parsed, calls, idle, applied, returned, zoteroVars>>

\* createZoteroItems(items, ...): the request is logged; a response that is
\* not OK makes it throw
Post(items, ok) == Append(calls, [items |-> items, ok |-> ok])

\* Step 2, one turn of the loop: the item is pushed and, when the list has
\* reached the batch size, sent.  When the request fails the catch block
\* counts one failure and the list stays as it is.
ConvertAndBatch ==
    /\ pc = "convert"
    /\ i <= Len(enriched)
    /\ LET items == Append(itemsToCreate, enriched[i])
       IN  IF Len(items) >= BatchSize
           THEN \E ok \in BOOLEAN :
                  /\ calls' = Post(items, ok)
                  /\ IF ok
                     THEN /\ results' = [results EXCEPT !.created = @ + Len(items)]
                          /\ itemsToCreate' = <<>>
                     ELSE /\ results' = [results EXCEPT !.failed = @ + 1]
                          /\ itemsToCreate' = items
           ELSE /\ itemsToCreate' = items
                /\ UNCHANGED <<calls, results>>
    /\ i' = i + 1
    /\ UNCHANGED <<sources, pc, enriched, progress, doi, enrichedSource, error, type,
                   cleanTitle, parsed, idle, applied, returned, storage, form,
                   statusMessage>>

\* After the loop: the remaining items are sent, outside every try, and the
\* tallies are returned; a failed request throws to the caller.
CreateRemaining ==
    /\ pc = "convert"
    /\ i > Len(enriched)
    /\ IF Len(itemsToCreate) > 0
       THEN \E ok \in BOOLEAN :
              /\ calls' = Post(itemsToCreate, ok)
              /\ IF ok
                 THEN /\ results' = [results EXCEPT !.created = @ + Len(itemsToCreate)]
                      /\ pc' = "returned"
                      /\ UNCHANGED error
                 ELSE /\ error' = "Failed to create items"
                      /\ pc' = "thrown"
                      /\ UNCHANGED results
       ELSE /\ pc' = "returned"
            /\ UNCHANGED <<calls, results, error>>
    /\ UNCHANGED <<sources, i, enriched, progress, doi, enrichedSource, type, cleanTitle,
                   parsed, idle, applied, returned, zoteroVars>>

ExportNext ==
    \/ EnrichForExport
    \/ BeginConversion
    \/ ConvertAndBatch
    \/ CreateRemaining

SpecExport == ExportInit /\ [][ExportNext]_vars

-----------------------------------------------------------------------------
(***************************************************************************)
(* The settings page.  storage holds the keys the page writes to           *)
(* chrome.storage.local; form holds the values of the input elements.      *)
(* autoCreateCollections and duplicateHandling are copied from the form to *)
(* the storage unread and are left out.  The markup of the page is not     *)
(* part of the sources: either ID field may hold text, and the library     *)
(* type a freshly opened page shows is one of the two the script knows.    *)
(***************************************************************************)
\* what the user may type as API key and as library ID
ApiKeyInputs == {"", "  ", " key1 "}

IdInputs == {"", " ", "12345", " 678 ", "12a"}

LibraryTypes == {"user", "group"}

\* the keys the page keeps in chrome.storage.local
SettingsKeys ==
    {"zoteroApiKey", "zoteroLibraryType", "zoteroUserId", "zoteroGroupId",
     "zoteroLastTested"}

\* result.key of chrome.storage.local.get: undefined for a key not stored
Stored(key) == IF key \in DOMAIN storage THEN storage[key] ELSE Undefined

\* /^\d+$/.test(id)
OnlyDigits(id) == Len(id) > 0 /\ Run(id, 1, DigitChars) = Len(id)

\* showStatus(message, type).  The messages are written without their
\* leading pictograph, and the messages of a failed request without the
\* detail the browser appends.
showStatus(message, kind) == statusMessage' = [text |-> message, type |-> kind]

\* handleLibraryTypeChange, on the form f: the field of the other library
\* type is emptied
handleLibraryTypeChange(f) ==
    IF f.libraryType = "user" THEN [f EXCEPT !.groupId = ""]
    ELSE [f EXCEPT !.userId = ""]

\* The page is opened: loadSettings fills the form from the storage.
loadSettings ==
    /\ \E shown \in LibraryTypes :
          LET blank == [ClearedForm EXCEPT !.libraryType = shown]
              a == IF Stored("zoteroApiKey") \notin {Undefined, ""}
                   THEN [blank EXCEPT !.apiKey = Stored("zoteroApiKey")] ELSE blank
              b == IF Stored("zoteroLibraryType") \notin {Undefined, ""}
                   THEN handleLibraryTypeChange(
                            [a EXCEPT !.libraryType = Stored("zoteroLibraryType")])
                   ELSE a
              c == IF Stored("zoteroUserId") \notin {Undefined, ""}
                   THEN [b EXCEPT !.userId = Stored("zoteroUserId")] ELSE b
          IN  form' = IF Stored("zoteroGroupId") \notin {Undefined, ""}
                      THEN [c EXCEPT !.groupId = Stored("zoteroGroupId")] ELSE c
    /\ statusMessage' = NoStatus
    /\ UNCHANGED <<sources, i, pc, enriched, results, progress, doi, enrichedSource, error,
                   type, cleanTitle, parsed, calls, idle, applied, returned,
                   itemsToCreate, storage>>

\* the user types into a field of the form
TypeInput ==
    /\ \/ \E v \in ApiKeyInputs : form' = [form EXCEPT !.apiKey = v]
       \/ \E v \in IdInputs : form' = [form EXCEPT !.userId = v]
       \/ \E v \in IdInputs : form' = [form EXCEPT !.groupId = v]
    /\ UNCHANGED <<sources, i, pc, enriched, results, progress, doi, enrichedSource, error,
                   type, cleanTitle, parsed, calls, idle, applied, returned,
                   itemsToCreate, storage, statusMessage>>

\* the user selects a library type: the change event runs
\* handleLibraryTypeChange
SelectLibraryType ==
    /\ \E selected \in LibraryTypes :
          form' = handleLibraryTypeChange([form EXCEPT !.libraryType = selected])
    /\ UNCHANGED <<sources, i, pc, enriched, results, progress, doi, enrichedSource, error,
                   type, cleanTitle, parsed, calls, idle, applied, returned,
                   itemsToCreate, storage, statusMessage>>

\* what saveSettings writes: chrome.storage.local.set merges the keys
SavedSettings(apiKey, libraryType, userId, groupId) ==
    Spread(storage,
           [zoteroApiKey |-> apiKey,
            zoteroLibraryType |-> libraryType,
            zoteroUserId |-> IF libraryType = "user" THEN userId ELSE "",
            zoteroGroupId |-> IF libraryType = "group" THEN groupId ELSE ""])

\* a saveSettings without the two tests for digits
saveSettingsWithoutDigitTest ==
    /\ LET apiKey == Trim(form.apiKey)
           libraryType == form.libraryType
           userId == Trim(form.userId)
           groupId == Trim(form.groupId)
       IN  IF apiKey = ""
           THEN showStatus("Please enter your API key", "error") /\ UNCHANGED storage
           ELSE IF libraryType = "user" /\ userId = ""
           THEN showStatus("Please enter your User ID", "error") /\ UNCHANGED storage
           ELSE IF libraryType = "group" /\ groupId = ""
           THEN showStatus("Please enter your Group ID", "error") /\ UNCHANGED storage
           ELSE \/ /\ storage' = SavedSettings(apiKey, libraryType, userId, groupId)
                   /\ showStatus("Settings saved successfully!", "success")
                \/ /\ showStatus("Error saving settings", "error")
                   /\ UNCHANGED storage
    /\ UNCHANGED <<sources, i, pc, enriched, results, progress, doi, enrichedSource, error,
                   type, cleanTitle, parsed, calls, idle, applied, returned,
                   itemsToCreate, form>>

\* saveSettings: the form is validated and, when it is valid, stored; the
\* write may be rejected by the browser, which stores nothing
saveSettings ==
    /\ LET apiKey == Trim(form.apiKey)
           libraryType == form.libraryType
           userId == Trim(form.userId)
           groupId == Trim(form.groupId)
       IN  IF apiKey = ""
           THEN showStatus("Please enter your API key", "error") /\ UNCHANGED storage
           ELSE IF libraryType = "user" /\ userId = ""
           THEN showStatus("Please enter your User ID", "error") /\ UNCHANGED storage
           ELSE IF libraryType = "group" /\ groupId = ""
           THEN showStatus("Please enter your Group ID", "error") /\ UNCHANGED storage
           ELSE IF libraryType = "user" /\ ~OnlyDigits(userId)
           THEN /\ showStatus("User ID should contain only numbers", "error")
                /\ UNCHANGED storage
           ELSE IF libraryType = "group" /\ ~OnlyDigits(groupId)
           THEN /\ showStatus("Group ID should contain only numbers", "error")
                /\ UNCHANGED storage
           ELSE \/ /\ storage' = SavedSettings(apiKey, libraryType, userId, groupId)
                   /\ showStatus("Settings saved successfully!", "success")
                \/ /\ showStatus("Error saving settings", "error")
                   /\ UNCHANGED storage
    /\ UNCHANGED <<sources, i, pc, enriched, results, progress, doi, enrichedSource, error,
                   type, cleanTitle, parsed, calls, idle, applied, returned,
                   itemsToCreate, form>>

\* testConnection: it reads the storage and, when the library answers OK,
\* stores the time of the test
testConnection ==
    /\ LET libraryType == IF Stored("zoteroLibraryType") \in {Undefined, ""} THEN "user"
                          ELSE Stored("zoteroLibraryType")
           libraryId == IF libraryType = "user" THEN Stored("zoteroUserId")
                        ELSE Stored("zoteroGroupId")
       IN  IF Stored("zoteroApiKey") \in {Undefined, ""}
           THEN showStatus("Please save your API key first", "error") /\ UNCHANGED storage
           ELSE IF libraryId \in {Undefined, ""}
           THEN /\ showStatus("Please save your library ID first", "error")
                /\ UNCHANGED storage
           ELSE \/ /\ storage' = Spread(storage, [zoteroLastTested |-> "now"])
                   /\ showStatus("Connection successful!", "success")
                \/ /\ showStatus("Connection failed", "error")
                   /\ UNCHANGED storage
    /\ UNCHANGED <<sources, i, pc, enriched, results, progress, doi, enrichedSource, error,
                   type, cleanTitle, parsed, calls, idle, applied, returned,
                   itemsToCreate, form>>

\* clearSettings, the user having confirmed: the keys are removed and the
\* form is reset, or the removal is rejected and nothing changes but the
\* message
clearSettings ==
    /\ \/ /\ storage' = [k \in DOMAIN storage \ SettingsKeys |-> storage[k]]
          /\ form' = handleLibraryTypeChange(ClearedForm)
          /\ showStatus("Settings cleared successfully", "success")
       \/ /\ showStatus("Error clearing settings", "error")
          /\ UNCHANGED <<storage, form>>
    /\ UNCHANGED <<sources, i, pc, enriched, results, progress, doi, enrichedSource, error,
                   type, cleanTitle, parsed, calls, idle, applied, returned,
                   itemsToCreate>>

\* the page is open on an empty storage
SettingsInit ==
    /\ sources = <<>>
    /\ i = 1
    /\ pc = "settings"
    /\ enriched = <<>>
    /\ results = [success |-> 0, partial |-> 0, failed |-> 0]
    /\ progress = <<>>
    /\ doi = Null
    /\ enrichedSource = NoRecord
    /\ error = Null
    /\ type = Null
    /\ cleanTitle = ""
    /\ parsed = NoParse
    /\ calls = <<>>
    /\ idle = RateLimitDelay
    /\ applied = NoApplication
    /\ returned = Null
    /\ itemsToCreate = <<>>
    /\ storage = [k \in {} |-> Null]
    /\ form \in {[ClearedForm EXCEPT !.libraryType = shown] : shown \in LibraryTypes}
    /\ statusMessage = NoStatus

SettingsNext ==
    \/ loadSettings
    \/ TypeInput
    \/ SelectLibraryType
    \/ saveSettings
    \/ testConnection
    \/ clearSettings

SpecSettings == SettingsInit /\ [][SettingsNext]_vars

-----------------------------------------------------------------------------
\* The properties of the batch runner and of the orchestrator

\* the fields extractSourceData gives every record
InputFields == {"title", "url", "type", "date", "index"}

\* C1: when enrichSources returns, the list it returns is as long as the
\* input list and its k-th element is the record made for the k-th input
\* record (it carries that record's index), whether the record was resolved,
\* left unresolved or failed with an exception.
C1_OutputMatchesInput ==
    pc = "done" =>
        /\ Len(enriched) = Len(sources)
        /\ \A k \in DOMAIN sources : enriched[k].index = sources[k].index

\* a returned batch of two or more records, one of them failed with an
\* exception and one resolved
C1_Witness ==
    /\ pc = "done"
    /\ Len(sources) >= 2
    /\ \E k \in DOMAIN enriched : Has(enriched[k], "error")
    /\ \E k \in DOMAIN enriched : enriched[k].confidence > 0

\* C2: the step that handles the exception of a record emits one record,
\* with the fields of the input record, confidence 0 and an error marker,
\* adds one to the failed tally and to no other, and leaves the run at the
\* head of the loop on the next record.
C2_ExceptionIsContained ==
    [][pc = "catch" =>
         /\ Len(enriched') = Len(enriched) + 1
         /\ LET record == enriched'[Len(enriched')]
            IN  /\ \A f \in InputFields : record[f] = source[f]
                /\ record.confidence = 0
                /\ Truthy(record, "error")
         /\ results' = [results EXCEPT !.failed = @ + 1]
         /\ pc' = "loop"
         /\ i' = i + 1
         /\ sources' = sources]_vars

\* a record was emitted for an exception and a later record has been
\* processed
C2_Witness ==
    \E k \in DOMAIN enriched :
        /\ Has(enriched[k], "error")
        /\ k < Len(enriched)
        /\ results.failed >= 1

\* C3: no exception leaves enrichSources.
C3_NoExceptionEscapes == pc # "escaped"

\* enrichSources returned after a step of a record threw
C3_Witness ==
    /\ pc = "done"
    /\ \E k \in DOMAIN enriched :
          Has(enriched[k], "error") /\ enriched[k].error = "localStorage is not available"

\* enrichSource returned and no strategy accepted a candidate
Unresolved ==
    /\ pc = "classify"
    /\ enrichedSource.confidence = 0
    /\ \A a \in DOMAIN calls : ~calls[a].accepted

\* C4: a record for which nothing was accepted is returned by enrichSource
\* as the input record with confidence 0 and the provenance tag "none",
\* whatever its classification.
C4_UnresolvedIsTaggedNone ==
    Unresolved =>
        /\ \A f \in InputFields : enrichedSource[f] = source[f]
        /\ Has(enrichedSource, "enrichmentType")
        /\ enrichedSource.enrichmentType = "none"

\* the provenance of a record: its enrichmentType or its enrichmentSource
HasProvenance(record) == Truthy(record, "enrichmentType") \/ Truthy(record, "enrichmentSource")

\* C5: every record enrichSource returns, and every record enrichSources
\* emits, that has a confidence other than 0 carries a non-empty
\* enrichmentType or enrichmentSource.
C5_ConfidenceHasProvenance ==
    /\ pc = "classify" /\ enrichedSource.confidence # 0 => HasProvenance(enrichedSource)
    /\ \A k \in DOMAIN enriched : enriched[k].confidence # 0 => HasProvenance(enriched[k])

\* records of every kind of provenance were emitted: one of the hybrid
\* chain (enrichmentSource alone) and one of the type-specific strategies
C5_Witness ==
    /\ \E k \in DOMAIN enriched :
          /\ enriched[k].confidence # 0
          /\ ~Has(enriched[k], "enrichmentType")
          /\ Truthy(enriched[k], "enrichmentSource")
    /\ \E k \in DOMAIN enriched :
          /\ enriched[k].confidence # 0
          /\ Has(enriched[k], "enrichmentType")
          /\ enriched[k].enrichmentType \in {"web", "youtube_nokey"}

\* undefined, null or ''
Empty(v) == v \in {Null, "undefined", ""}

\* C6: in a record that was merged from an accepted candidate, a field of
\* the input record (title, url, type, date) either keeps its input value or
\* holds a value that is not empty.
C6_InputFieldsNeverEmptied ==
    pc = "classify" /\ enrichedSource.confidence # 0 =>
        \A f \in {"title", "url", "type", "date"} :
            enrichedSource[f] = source[f] \/ ~Empty(enrichedSource[f])

\* C7: the provider calls of a record follow the order of the strategies
\* (1 identifier of the record, 2 URL shape, 3 identifier by title search,
\* 4 the remaining strategies), the URL strategy calls a provider only for a
\* record with a URL, and no call follows a call whose result was accepted.
C7_StrategyOrder ==
    pc \in TryBlock \cup {"catch"} =>
        /\ \A a, b \in DOMAIN calls : a < b => calls[a].stage <= calls[b].stage
        /\ \A a \in DOMAIN calls : calls[a].stage = 2 => source.url # ""
        /\ \A a \in DOMAIN calls : calls[a].accepted => a = Len(calls)
        /\ (\E a \in DOMAIN calls : calls[a].accepted) => pc \in {"classify", "sleep"}

\* a record went through the four strategies and the last one was accepted
C7_Witness ==
    /\ pc = "classify"
    /\ \A stage \in 1..4 : \E a \in DOMAIN calls : calls[a].stage = stage
    /\ calls[Len(calls)].accepted

\* the calls of the generic strategies of enrichAcademic
GenericProviders ==
    {"crossref-structured", "crossref-title", "openalex-title", "semanticscholar-title"}

\* C8: a record classified as arxiv, web or youtube whose own strategy
\* gave nothing is not declared unresolved before a generic strategy
\* (structured query, title search) was attempted.
C8_ClassificationIsAdvisory ==
    Unresolved /\ type \in {"arxiv", "web", "youtube"} =>
        \E a \in DOMAIN calls : calls[a].provider \in GenericProviders

\* C9: no provider is called twice with the same identifier or title for one
\* record.
C9_NoCallRepeated ==
    \A a, b \in DOMAIN calls :
        a # b => <<calls[a].provider, calls[a].key>> # <<calls[b].provider, calls[b].key>>

\* C10: the first provider call of every record after the first comes at
\* least RATE_LIMITS.delay after the previous record was emitted.
C10_DelayBetweenRecords ==
    i > 1 /\ Len(calls) > 0 /\ pc \in TryBlock \cup {"catch"} =>
        calls[1].waited >= RateLimitDelay

\* the outcome the specification gives a record: success with an author and
\* one of doi, abstract, journal; partial with an author, a doi or an
\* abstract; failed otherwise
SpecifiedOutcome(record) ==
    LET author == Has(record, "authors") /\ Len(record.authors) >= 1
        doiSet == Truthy(record, "doi")
        abstractSet == Truthy(record, "abstract")
        journalSet == Truthy(record, "journal")
    IN  IF author /\ (doiSet \/ abstractSet \/ journalSet) THEN "success"
        ELSE IF author \/ doiSet \/ abstractSet THEN "partial"
        ELSE "failed"

\* C11: the step that follows the return of enrichSource adds one to
\* exactly one tally, the one the specification gives the returned record,
\* and reports that outcome; so the tallies always add up to the number of
\* records emitted.
C11_OneTallyPerRecord ==
    [][pc = "classify" =>
         /\ results' = [results EXCEPT ![SpecifiedOutcome(enrichedSource)] = @ + 1]
         /\ progress'[Len(progress')].type = SpecifiedOutcome(enrichedSource)
         /\ results'.success + results'.partial + results'.failed = Len(enriched')]_vars

\* a run that counted a success and a partial record
C11_Witness ==
    /\ pc = "done"
    /\ results.success >= 1
    /\ results.partial >= 1
    /\ \E k \in DOMAIN enriched :
          ~HasAuthors(enriched[k]) /\ Truthy(enriched[k], "doi")

\* the outcome tags of the progress calls made after a record
OutcomeTags == {"success", "partial", "failed", "error"}

\* the progress calls made after the k-th record
ReportsAfter(k) ==
    {a \in DOMAIN progress : progress[a].type \in OutcomeTags /\ progress[a].current = k}

\* C12 as stated: every progress call made after a record carries the
\* running tallies, besides the record's index and the total; the run ends
\* with one call that carries the final tallies; the index never decreases.
C12_ReportsCarryTallies ==
    /\ \A a \in DOMAIN progress :
          progress[a].type \in OutcomeTags =>
              /\ Has(progress[a], "results")
              /\ progress[a].results.success + progress[a].results.partial
                     + progress[a].results.failed = progress[a].current
    /\ pc = "done" => progress[Len(progress)].type = "complete"

\* C12, amended: after every record the callback is called once with the
\* record's index, the total and the record's outcome tag (the tallies are
\* not part of it); the last call of the run, and no other, is the final one
\* and carries the final tallies; the index never decreases.
C12_ProgressReports ==
    /\ \A k \in DOMAIN enriched :
          /\ Cardinality(ReportsAfter(k)) = 1
          /\ \A a \in ReportsAfter(k) :
                /\ progress[a].total = Len(sources)
                /\ ~Has(progress[a], "results")
                /\ (progress[a].type = "error") = Has(enriched[k], "error")
    /\ \A a \in DOMAIN progress :
          progress[a].type = "complete" =>
              /\ a = Len(progress)
              /\ pc = "done"
              /\ progress[a].results = results
              /\ progress[a].current = Len(sources)
    /\ pc = "done" => progress[Len(progress)].type = "complete"
    /\ \A a, b \in DOMAIN progress : a < b => progress[a].current <= progress[b].current

\* a finished run of two records or more, one of them reported as an error
C12_Witness ==
    /\ pc = "done"
    /\ Len(sources) >= 2
    /\ progress[Len(progress)].type = "complete"
    /\ \E a \in DOMAIN progress : progress[a].type = "error"

\* the clients that return metadata, and the one that returns a DOI
MetadataClients ==
    {"getMetadataFromDOI", "getMetadataFromArxiv", "getMetadataFromPubMed",
     "queryWithAuthorYear", "queryCrossRef", "queryOpenAlex", "querySemanticScholar"}

\* a client was called and its provider did not answer a usable document
ClientFailed ==
    /\ pc = "applied"
    /\ applied.fn \in MetadataClients \cup {"findDOIByTitle"}
    /\ applied.r.status \in Failures

IdentifierProviders ==
    [provider \in {"crossref-doi", "arxiv-id", "pubmed-id"} |->
        CASE provider = "crossref-doi" -> [tag |-> "CrossRef (DOI)", confidence |-> 100 * Scale]
          [] provider = "arxiv-id" -> [tag |-> "arXiv API", confidence |-> 95 * Scale]
          [] provider = "pubmed-id" -> [tag |-> "PubMed API", confidence |-> 95 * Scale]]

\* enrichSource has just returned the record of an identifier lookup
ResolvedByIdentifier ==
    /\ pc = "classify"
    /\ calls # <<>>
    /\ calls[Len(calls)].accepted
    /\ calls[Len(calls)].stage \in 1..3

\* C14: a record resolved through an identifier (a DOI in the source, a URL
\* pattern, or a DOI found by the title search) carries the fixed confidence
\* and the provenance tag of the client that looked the identifier up,
\* whatever the title search or any other call of the record answered.
C14_IdentifierConfidenceIsFixed ==
    ResolvedByIdentifier =>
        LET winner == IdentifierProviders[calls[Len(calls)].provider]
        IN  /\ enrichedSource.confidence = winner.confidence
            /\ enrichedSource.enrichmentSource = winner.tag

\* a record resolved by the DOI that the title search found
C14_Witness ==
    /\ ResolvedByIdentifier
    /\ calls[Len(calls)].stage = 3
    /\ enrichedSource.confidence = 100 * Scale
    /\ enrichedSource.enrichmentSource = "CrossRef (DOI)"

\* C15: every record the batch runner emits has a confidence between 0 and 1
\* (0 and Scale here), whichever strategy produced it.
C15_ConfidenceIsNormalized ==
    \A k \in DOMAIN enriched :
        /\ Has(enriched[k], "confidence")
        /\ enriched[k].confidence \in 0..Scale

\* enrichSource has been run twice on one record, with one provider stub
RanTwice == pc = "applied" /\ applied.fn = "enrichSource"

DeclaredHosts ==
    {"notebooklm.google.com", "api.zotero.org", "api.crossref.org", "export.arxiv.org",
     "arxiv.org", "eutils.ncbi.nlm.nih.gov", "pubmed.ncbi.nlm.nih.gov"}

\* C18: every request of an enrichment run goes to NotebookLM, to the
\* Zotero API or to the CrossRef, arXiv or PubMed API, and to no other host.
C18_OnlyDeclaredHosts ==
    \A k \in DOMAIN calls : RequestHost(calls[k]) \in DeclaredHosts

\* calculateTitleSimilarity has been applied to a pair of titles
Compared == pc = "applied" /\ applied.fn = "calculateTitleSimilarity"

\* C19: calculateTitleSimilarity gives 1.0 for a title and itself, the same
\* value for a pair and for the pair swapped, and a value between 0 and 1,
\* titles that are empty or that normalize to empty included.
C19_SimilarityIsReflexiveSymmetricBounded ==
    Compared =>
        /\ returned.aa = Scale
        /\ returned.ab = returned.ba
        /\ returned.ab \in 0..Scale

\* an empty title against one that holds words: the substring bonus alone
C19_Witness ==
    /\ Compared
    /\ applied.args = <<"", "Deep Nets">>
    /\ returned.ab = 20
    /\ returned.ba = 20

\* C20: extractDOI returns the DOI without what the greedy pattern took
\* after it: from a title that holds the DOI 10.1038/s41586-024-01234-5,
\* such as "Smith et al - 2024 - 10.1038/s41586-024-01234-5.pdf", it
\* returns exactly that DOI.
C20_DoiWithoutTrailingText ==
    pc = "applied" /\ applied.fn = "extractDOI" =>
        returned = "10.1038/s41586-024-01234-5"

\* the tags the title-search strategies give the records they resolved
TitleSearchTags == {"structured_query", "crossref", "openalex", "semanticscholar", "arxiv"}

\* C21: a record that a title search resolved (the structured query,
\* CrossRef, OpenAlex, Semantic Scholar or the arXiv query of enrichArxiv)
\* never has a confidence below 0.65: no top hit whose title similarity is
\* below its provider's threshold is merged into an emitted record.
C21_NoCandidateBelowThreshold ==
    \A k \in DOMAIN enriched :
        (Has(enriched[k], "enrichmentType")
         /\ enriched[k].enrichmentType \in TitleSearchTags)
            => enriched[k].confidence >= OpenAlexThreshold

\* the highest acceptance threshold of the plain title searches
PlainSearchThreshold ==
    CHOOSE t \in {CrossRefThreshold, OpenAlexThreshold, SemanticScholarThreshold} :
        \A u \in {CrossRefThreshold, OpenAlexThreshold, SemanticScholarThreshold} : u <= t

\* C22: the structured author and year query is accepted only when its
\* combined confidence clears a bar strictly higher than the threshold of
\* every plain title search: a record tagged structured_query has a
\* confidence above the thresholds of CrossRef, OpenAlex and Semantic
\* Scholar.
C22_StructuredBarIsHigher ==
    \A k \in DOMAIN enriched :
        (Has(enriched[k], "enrichmentType")
         /\ enriched[k].enrichmentType = "structured_query")
            => enriched[k].confidence > PlainSearchThreshold

\* the answer of a DOI search holds a top hit with a DOI whose relevance
\* score is at least 30 (a hit without score counts as 0)
TopHitClearsFloor(answer) ==
    /\ answer.status = "ok"
    /\ Len(answer.body) > 0
    /\ Has(answer.body[1], "DOI")
    /\ Has(answer.body[1], "score")
    /\ answer.body[1].score >= 30

\* the positions of the call log that hold a DOI search by title
TitleSearches == {k \in DOMAIN calls : calls[k].provider = "crossref-doi-search"}

\* C23: in the identifier-by-title-search step the DOI of the top hit is
\* accepted if and only if its relevance score is at least 30: an accepted
\* DOI, and no other, is looked up right after the search, and after a
\* rejected or failed search the step makes no DOI lookup at all.
C23_DoiAcceptedAtFloor ==
    /\ \A k \in TitleSearches :
          IF TopHitClearsFloor(calls[k].answer)
          THEN IF k = Len(calls)
               THEN pc = "hybridTitleDoi" /\ doi = calls[k].answer.body[1].DOI
               ELSE /\ calls[k + 1].stage = 3
                    /\ calls[k + 1].provider = "crossref-doi"
                    /\ calls[k + 1].key = calls[k].answer.body[1].DOI
          ELSE /\ pc # "hybridTitleDoi"
               /\ \A j \in DOMAIN calls : j > k => calls[j].stage # 3
    /\ \A k \in DOMAIN calls :
          (calls[k].stage = 3 /\ calls[k].provider = "crossref-doi")
              => k - 1 \in TitleSearches

\* a top hit whose score is exactly 30 was accepted and its DOI looked up
C23_Witness ==
    \E k \in TitleSearches :
        /\ TopHitClearsFloor(calls[k].answer)
        /\ calls[k].answer.body[1].score = 30
        /\ k < Len(calls)
        /\ calls[k + 1].provider = "crossref-doi"

\* the plain title searches of enrichAcademic in their order: the provider
\* call, the tag of the record it resolves, the threshold times Scale
PlainSearches ==
    <<[provider |-> "crossref-title", tag |-> "crossref", threshold |-> 70],
      [provider |-> "openalex-title", tag |-> "openalex", threshold |-> 65],
      [provider |-> "semanticscholar-title", tag |-> "semanticscholar", threshold |-> 65]>>

\* the place of a provider call in that order, 0 for any other call
PlainRank(call) ==
    IF \E n \in DOMAIN PlainSearches : PlainSearches[n].provider = call.provider
    THEN CHOOSE n \in DOMAIN PlainSearches : PlainSearches[n].provider = call.provider
    ELSE 0

\* C24: the plain title search asks CrossRef, then OpenAlex, then Semantic
\* Scholar: a provider is asked only right after the one before it was
\* asked and rejected, the record is resolved by the provider that was
\* asked last, with a confidence that clears that provider's threshold
\* (0.7, 0.65, 0.65), and a record none of them resolved is tagged none.
C24_PlainSearchOrder ==
    /\ \A k \in DOMAIN calls :
          /\ PlainRank(calls[k]) = 1 => \A j \in 1..(k - 1) : PlainRank(calls[j]) = 0
          /\ PlainRank(calls[k]) > 1 =>
                /\ k > 1
                /\ PlainRank(calls[k - 1]) = PlainRank(calls[k]) - 1
                /\ ~calls[k - 1].accepted
          /\ (PlainRank(calls[k]) > 0 /\ calls[k].accepted) => k = Len(calls)
    /\ (pc = "classify" /\ calls # <<>> /\ PlainRank(calls[Len(calls)]) > 0) =>
          LET last == calls[Len(calls)]
              search == PlainSearches[PlainRank(last)]
          IN  IF last.accepted
              THEN /\ enrichedSource.enrichmentType = search.tag
                   /\ enrichedSource.confidence >= search.threshold
              ELSE /\ PlainRank(last) = Len(PlainSearches)
                   /\ enrichedSource.enrichmentType = "none"
    /\ (pc = "classify" /\ Has(enrichedSource, "enrichmentType")
        /\ \E n \in DOMAIN PlainSearches :
              PlainSearches[n].tag = enrichedSource.enrichmentType) =>
          /\ calls # <<>>
          /\ calls[Len(calls)].accepted
          /\ PlainSearches[PlainRank(calls[Len(calls)])].tag = enrichedSource.enrichmentType

\* OpenAlex resolved a record with a confidence CrossRef's threshold would
\* have refused, after CrossRef was asked and rejected
C24_Witness ==
    /\ pc = "classify"
    /\ Has(enrichedSource, "enrichmentType")
    /\ enrichedSource.enrichmentType = "openalex"
    /\ enrichedSource.confidence < 70
    /\ Len(calls) > 1
    /\ calls[Len(calls) - 1].provider = "crossref-title"

\* the requests whose response has not settled
InFlight == {k \in DOMAIN calls : ~calls[k].settled}

\* C25: at every moment of a batch run at most one provider call is in
\* flight: a call for a record is sent only after every record before it
\* was emitted, and only after every earlier call has settled.
C25_OneCallInFlight ==
    /\ Cardinality(InFlight) <= 1
    /\ \A k \in DOMAIN calls :
          /\ calls[k].record <= Len(enriched) + 1
          /\ k \in InFlight => calls[k].record = Len(enriched) + 1
          /\ k < Len(calls) => calls[k].settled

\* a call for the second record is in flight, after the first record took
\* two calls and was emitted
C25_Witness ==
    /\ Len(enriched) = 1
    /\ Cardinality({k \in DOMAIN calls : calls[k].record = 1}) >= 2
    /\ \E k \in InFlight : calls[k].record = 2

\* C26: the DOI extractDOI returns is normalized, in lower case and
\* without resolver URL or doi marker: every record that spells the DOI
\* 10.1000/xyz1, whatever the case and the prefix, yields "10.1000/xyz1".
C26_DoiIsNormalized ==
    (pc = "applied" /\ applied.fn = "cleanDOI") => returned = "10.1000/xyz1"

\* what each of the four patterns, in their priority order, makes of a title
PatternResults(title) == <<Pattern1(title), Pattern2(title), Pattern3(title), Pattern4(title)>>

\* the patterns that match a title
Matching(title) == {n \in 1..4 : PatternResults(title)[n] # NoParse}

\* C27: parseFilenameMetadata returns what the first pattern that matches,
\* in the order "Author et al - YYYY", "Author (YYYY)", "Author - YYYY",
\* "Author YYYY", makes of the title, whatever the later patterns would
\* make of it; "Jones & Brown (2023) - Climate Models.pdf" gives Jones and
\* 2023, "Smith et al - 2024 - Title.pdf" gives Smith and 2024 (the year as
\* its four digits); author and year are both set or both absent.
C27_FirstPatternDecides ==
    (pc = "applied" /\ applied.fn = "parseFilenameMetadata") =>
        LET title == applied.args[1]
        IN  /\ returned = IF Matching(title) = {} THEN [author |-> Null, year |-> Null]
                          ELSE PatternResults(title)[Least(Matching(title))]
            /\ title = "Jones & Brown (2023) - Climate Models.pdf" =>
                  returned = [author |-> "Jones", year |-> "2023"]
            /\ title = "Smith et al - 2024 - Title.pdf" =>
                  returned = [author |-> "Smith", year |-> "2024"]
            /\ (returned.author = Null) = (returned.year = Null)
            /\ returned.author # ""

\* the parser ran on a title that two patterns match with different results
C27_Witness ==
    /\ pc = "applied"
    /\ applied.fn = "parseFilenameMetadata"
    /\ \E m, n \in Matching(applied.args[1]) :
          /\ m < n
          /\ PatternResults(applied.args[1])[m] # PatternResults(applied.args[1])[n]
          /\ returned = PatternResults(applied.args[1])[m]

\* the records the batch runner tallied as success or as partial
TalliedResolved ==
    {progress[k].current : k \in {n \in DOMAIN progress :
                                     progress[n].type \in {"success", "partial"}}}

\* C28: a record that is counted as success or as partial has a strictly
\* positive confidence: a record whose final confidence is 0 is counted as
\* failed.
C28_TalliedRecordsHaveConfidence ==
    \A k \in TalliedResolved :
        k \in DOMAIN enriched =>
            Has(enriched[k], "confidence") /\ enriched[k].confidence > 0

\* the items that were sent in a request
Submitted(k) == {calls[k].items[n] : n \in DOMAIN calls[k].items}

\* C29: when exportSourcesToZotero returns, created + skipped + failed is
\* the number of input sources, and no item was sent in two requests,
\* whichever item-creation requests failed.
C29_TalliesAddUp ==
    pc = "returned" =>
        /\ results.created + results.skipped + results.failed = Len(sources)
        /\ \A j, k \in DOMAIN calls : j < k => Submitted(j) \cap Submitted(k) = {}

\* the messages saveSettings shows when the form fails its validation
ValidationMessages ==
    {"Please enter your API key", "Please enter your User ID", "Please enter your Group ID",
     "User ID should contain only numbers", "Group ID should contain only numbers"}

\* a stored library ID, '' when the key is not stored
StoredId(key) == IF key \in DOMAIN storage THEN storage[key] ELSE ""

\* at most one of the two stored IDs is not empty, and that one is made of
\* digits and is the ID of the stored library type
ConsistentStorage ==
    /\ StoredId("zoteroUserId") = "" \/ StoredId("zoteroGroupId") = ""
    /\ StoredId("zoteroUserId") # "" =>
          /\ \A n \in 1..Len(storage.zoteroUserId) :
                Char(storage.zoteroUserId, n) \in DigitChars
          /\ storage.zoteroLibraryType = "user"
    /\ StoredId("zoteroGroupId") # "" =>
          /\ \A n \in 1..Len(storage.zoteroGroupId) :
                Char(storage.zoteroGroupId, n) \in DigitChars
          /\ storage.zoteroLibraryType = "group"

\* C30: after any sequence of operations of the settings page the stored
\* configuration is consistent (at most one library ID, made of digits,
\* of the stored library type), and a step that ends with a validation
\* message of saveSettings has left the stored configuration as it was.
C30_StoredSettingsConsistent ==
    /\ []ConsistentStorage
    /\ [][statusMessage'.text \in ValidationMessages => storage' = storage]_vars

\* a group library is stored, and a later save with an ID that is not a
\* number was refused
C30_Witness ==
    /\ StoredId("zoteroGroupId") = "678"
    /\ statusMessage.text = "User ID should contain only numbers"
    /\ Trim(form.userId) = "12a"

=========================================================================
